---- MODULE Spec2Model ----
(***************************************************************************)
(* Model of the cad-agent generation / validation / feedback loop          *)
(* (core/agent.py CADAgent.run and advanced_agent_core.py                  *)
(* run_advanced_agent), of the generator dispatch (gen_parts.generate_part *)
(* and core/base.py PartGenerator.generate) and of the example store       *)
(* (memory.py).                                                            *)
(*                                                                         *)
(* A candidate spec returned by the inference collaborator is abstracted   *)
(* by how the deterministic functions of the program evaluate on it: the   *)
(* family it names, what the family's validate does on its parameters,     *)
(* what draw does, what the acceptance check finds in the drawn geometry   *)
(* and what the engineering validator does.  Texts (exception messages,    *)
(* feedback) are sequences of tokens, so that "the feedback contains the   *)
(* message" is a checkable statement.                                      *)
(***************************************************************************)
EXTENDS Integers, Sequences, FiniteSets, TLC

VARIABLES
    orch,            \* which orchestrator runs: "core" (CADAgent.run) or "adv" (run_advanced_agent)
    registryLoaded,  \* whether `import parts` populated the class registry (gen_parts.py:1297)
    pc,              \* position of the run in the loop body
    attempt,         \* the loop variable (context.attempt, 1-based / attempt, 0-based)
    feedback,        \* context.feedback / feedback: text of the last failure, <<>> when none
    requests,        \* history: the feedback text each inference request carried
    spec,            \* the candidate spec of the current attempt
    specFile,        \* content of temp_spec.json / agent_spec.json
    dxfFile,         \* content of the output geometry file
    ok,              \* acceptance verdict of the current attempt
    msg,             \* acceptance message of the current attempt
    store,           \* content of agent_memory.json: sequence of [input, spec]
    writes,          \* history: number of save_memory calls
    memCall,         \* history: the arguments of the most recent add_example call
    calls,           \* history: number of add_example calls (bounded in the store specification)
    result,          \* what the run returned: "none" while running
    error,           \* the error text of a failure result
    trace,           \* history: per attempt, the spec inferred and what each stage did
    writers,         \* concurrent add_example calls: per caller its position and locals
    runs,            \* concurrent runs: per run its position and locals
    http,            \* the transport state of the inference call in progress
    gen,             \* one generation, step by step: position, document, event log
    part,            \* a family's validate / draw applied to a parameter set
    catalog,         \* GeneratorRegistry._generators and the result of the last call on it
    doc,             \* the entities of the DXF document being drawn and checked
    turtle           \* the TurtleCAD instance: position, heading, pen

vars == <<orch, registryLoaded, pc, attempt, feedback, requests, spec, specFile,
          dxfFile, ok, msg, store, writes, memCall, calls, result, error, trace,
          writers, runs, http, gen, part, catalog, doc, turtle>>

\* the state of the specifications other than the one at hand
extVars == <<writers, runs, http, gen, part, catalog, doc, turtle>>

Unused == <<>>

ExtUnused ==
    /\ writers = Unused
    /\ runs = Unused
    /\ http = Unused
    /\ gen = Unused
    /\ part = Unused
    /\ catalog = Unused
    /\ doc = Unused
    /\ turtle = Unused

-----------------------------------------------------------------------------
(* Program constants *)

max_iterations == 3

MAX_RETRIES == 3

MEMORY_CAP == 50

enable_validation == TRUE

enable_memory == TRUE

enable_engineering == TRUE

(* Bounds of the model *)

MaxAdds == 3

MaxNewInputs == 3

-----------------------------------------------------------------------------
(* Candidate specs *)

GENERATORS == {"plate", "custom_code"}

RegisteredTypes == {"plate", "custom_code"}

Families == GENERATORS \cup {"widget"}

ValidateOutcomes == {"ok", "length_must_be_positive", "hole_out_of_range"}

DrawOutcomes == {"ok", "ValueError", "Other"}

AcceptOutcomes == {"pass", "outline_size_mismatch", "drawing_empty"}

EngOutcomes == {"valid", "invalid", "error"}

SpecRecords == [type : Families, validate : ValidateOutcomes, draw : DrawOutcomes,
                accept : AcceptOutcomes, eng : EngOutcomes]

\* One representative per behaviour: the fields a failing stage never reaches
\* are fixed.
Specs == {s \in SpecRecords :
            /\ s.type \notin GENERATORS =>
                 s.validate = "ok" /\ s.draw = "ok" /\ s.accept = "pass" /\ s.eng = "valid"
            /\ s.validate # "ok" => s.draw = "ok" /\ s.accept = "pass" /\ s.eng = "valid"
            /\ s.draw # "ok" => s.accept = "pass" /\ s.eng = "valid"}

NoSpec == [type |-> "none", validate |-> "ok", draw |-> "ok", accept |-> "pass", eng |-> "valid"]

NoFile == [spec |-> NoSpec, attempt |-> 0]

OldDoc == [spec |-> [type |-> "plate", validate |-> "ok", draw |-> "ok",
                     accept |-> "pass", eng |-> "valid"], attempt |-> 0]

UserInput == 0

-----------------------------------------------------------------------------
(* Texts *)

Contains(text, token) == \E i \in 1..Len(text) : text[i] = token

\* str(ValidationError): "[{part_type}] {param_name}: {message}"
ValidationErrorStr(part_type, param_name, message) == <<part_type, param_name, message>>

\* str(GenerationError): "[{part_type}] 生成失败: {message}"
GenerationErrorStr(part_type, message) == <<part_type, "generation_failed", message>>

-----------------------------------------------------------------------------
(* Example store: memory.py *)

load_memory == store

HasInput(entries, user_input) == \E i \in 1..Len(entries) : entries[i].input = user_input

\* whether add_example reaches save_memory
add_example_saves(entries, user_input) == ~HasInput(entries, user_input)

\* add_example keeping the first MEMORY_CAP entries (entries[:50]) instead of the last
add_example_keeps_oldest(entries, user_input, s) ==
    IF HasInput(entries, user_input)
    THEN entries
    ELSE LET appended == Append(entries, [input |-> user_input, spec |-> s])
         IN  IF Len(appended) > MEMORY_CAP
             THEN SubSeq(appended, 1, MEMORY_CAP)
             ELSE appended

\* add_example replacing the stored spec of an input that is already stored
add_example_replaces(entries, user_input, s) ==
    IF HasInput(entries, user_input)
    THEN [i \in 1..Len(entries) |->
            IF entries[i].input = user_input
            THEN [input |-> user_input, spec |-> s]
            ELSE entries[i]]
    ELSE LET appended == Append(entries, [input |-> user_input, spec |-> s])
         IN  IF Len(appended) > MEMORY_CAP
             THEN SubSeq(appended, Len(appended) - MEMORY_CAP + 1, Len(appended))
             ELSE appended

add_example(entries, user_input, s) ==
    IF HasInput(entries, user_input)
    THEN entries
    ELSE LET appended == Append(entries, [input |-> user_input, spec |-> s])
         IN  IF Len(appended) > MEMORY_CAP
             THEN SubSeq(appended, Len(appended) - MEMORY_CAP + 1, Len(appended))
             ELSE appended

-----------------------------------------------------------------------------
(* Generator dispatch: gen_parts.generate_part, core/base.py PartGenerator.generate *)

\* An outcome of a call: kind "ok" or the class of the exception it raises,
\* text = str(e), wrote = whether the output file was (over)written.
Outcome(kind, text, wrote) == [kind |-> kind, text |-> text, wrote |-> wrote]

\* GeneratorRegistry.create_instance: TRUE when an instance is returned,
\* FALSE when RegistrationError is raised
create_generator(part_type) == part_type \in RegisteredTypes

\* PartGenerator.generate(params, output_file) of the class registry
PartGenerator_generate(s, saveOk) ==
    IF s.validate # "ok"
    THEN Outcome("ValidationError", ValidationErrorStr(s.type, "param", s.validate), FALSE)
    ELSE IF s.draw # "ok"
    THEN Outcome("GenerationError", GenerationErrorStr(s.type, "draw_failed"), FALSE)
    ELSE IF ~saveOk
    THEN Outcome("GenerationError", GenerationErrorStr(s.type, "save_failed"), FALSE)
    ELSE Outcome("ok", <<>>, TRUE)

\* the legacy GENERATORS table path of generate_part
legacy_generate(s, saveOk) ==
    IF s.type \notin GENERATORS
    THEN Outcome("ValueError", <<"unsupported_part_type", s.type>>, FALSE)
    ELSE IF s.validate # "ok"
    THEN Outcome("ValueError", <<s.validate>>, FALSE)
    ELSE IF s.draw = "ValueError"
    THEN Outcome("ValueError", <<"draw_value_error">>, FALSE)
    ELSE IF s.draw = "Other"
    THEN Outcome("Other", <<"draw_error">>, FALSE)
    ELSE IF ~saveOk
    THEN Outcome("Other", <<"save_error">>, FALSE)
    ELSE Outcome("ok", <<>>, TRUE)

\* generate_part(spec, output_file): the class registry first; on
\* RegistrationError / ImportError the legacy table
generate_part(s, loaded, saveOk) ==
    IF loaded /\ create_generator(s.type)
    THEN PartGenerator_generate(s, saveOk)
    ELSE legacy_generate(s, saveOk)

-----------------------------------------------------------------------------
(* Acceptance and engineering validation *)

\* validate_dxf_file(dxf_file, spec_file): never raises, returns (ok, msg)
validate_dxf_file(dxf, specf) ==
    IF specf = NoSpec THEN [ok |-> FALSE, msg |-> <<"spec_file_missing">>]
    ELSE IF dxf = NoFile THEN [ok |-> FALSE, msg |-> <<"dxf_file_missing">>]
    ELSE IF dxf.spec # specf THEN [ok |-> FALSE, msg |-> <<"geometry_of_other_spec">>]
    ELSE IF specf.accept = "pass" THEN [ok |-> TRUE, msg |-> <<"accepted">>]
    ELSE [ok |-> FALSE, msg |-> <<specf.accept>>]

\* validate_part_design(part_type, part_params): "valid" / "invalid" for the
\* returned is_valid, "error" when it raises (TypeError on a non-numeric
\* thickness, teeth or length)
validate_part_design(s) == s.eng

-----------------------------------------------------------------------------
(* Orchestrator: CADAgent.run / run_advanced_agent *)

N == IF orch = "core" THEN max_iterations ELSE MAX_RETRIES

FirstAttempt(o) == IF o = "core" THEN 1 ELSE 0

LastAttempt == IF orch = "core" THEN max_iterations ELSE MAX_RETRIES - 1

\* 1-based number of the current attempt
AttemptNo == IF orch = "core" THEN attempt ELSE attempt + 1

NoCall == [input |-> -1, spec |-> NoSpec]

\* `continue` / falling off the loop body: next iteration, or the return
\* after the loop
Continue(fb) ==
    /\ feedback' = fb
    /\ IF attempt < LastAttempt
       THEN /\ attempt' = attempt + 1
            /\ pc' = "infer"
            /\ UNCHANGED <<result, error>>
       ELSE /\ pc' = "done"
            /\ result' = "exhausted"
            /\ error' = <<"max_retries_reached">>
            /\ UNCHANGED attempt

\* return of a failure result from inside the loop
Abort(err) ==
    /\ pc' = "done"
    /\ result' = "aborted"
    /\ error' = err
    /\ UNCHANGED <<attempt, feedback>>

\* save to memory and return the success result
Succeed ==
    /\ pc' = "done"
    /\ result' = "success"
    /\ IF enable_memory
       THEN /\ store' = add_example(load_memory, UserInput, spec)
            /\ writes' = IF add_example_saves(load_memory, UserInput) THEN writes + 1 ELSE writes
            /\ memCall' = [input |-> UserInput, spec |-> spec]
            /\ calls' = calls + 1
       ELSE UNCHANGED <<store, writes, memCall, calls>>
    /\ UNCHANGED <<attempt, feedback, error>>

InferOutcomes == {"transport_error", "no_json", "spec"}

\* history record of an attempt that has just made its inference call
Started(r, s) == [spec |-> s, infer |-> r, gen |-> "none", acc |-> "none", eng |-> "none"]

\* the history with one field of the current attempt's record set
Noted(field, value) == [trace EXCEPT ![Len(trace)] = [@ EXCEPT ![field] = value]]

\* SpecGenerator.generate / parse_with_llm, then the write of the spec file
Infer ==
    /\ pc = "infer"
    /\ requests' = Append(requests, feedback)
    /\ \E r \in InferOutcomes :
         \/ /\ r = "transport_error"
            /\ Abort(<<"llm_call_failed", "api_error">>)
            /\ trace' = Append(trace, Started(r, NoSpec))
            /\ UNCHANGED <<spec, specFile>>
         \/ /\ r = "no_json"
            /\ IF orch = "core"
               THEN Continue(<<"param_check_failed", "json_not_found">>)
               ELSE Abort(<<"llm_call_failed", "json_not_found">>)
            /\ trace' = Append(trace, Started(r, NoSpec))
            /\ UNCHANGED <<spec, specFile>>
         \/ /\ r = "spec"
            /\ \E s \in Specs :
                 /\ spec' = s
                 /\ specFile' = s
                 /\ trace' = Append(trace, Started(r, s))
            /\ pc' = "generate"
            /\ UNCHANGED <<attempt, feedback, result, error>>
    /\ UNCHANGED <<orch, registryLoaded, dxfFile, ok, msg, store, writes, memCall, calls>>
    /\ UNCHANGED extVars

GenFeedback(text) ==
    IF orch = "core"
    THEN <<"param_check_failed">> \o text
    ELSE <<"param_check_failed">> \o text \o <<"check_engineering_norms">>

\* generate_part(spec, output_file) and the except clauses around it
Generate ==
    /\ pc = "generate"
    /\ \E saveOk \in BOOLEAN :
         LET g == generate_part(spec, registryLoaded, saveOk) IN
         /\ dxfFile' = IF g.wrote THEN [spec |-> spec, attempt |-> AttemptNo] ELSE dxfFile
         /\ trace' = Noted("gen", g.kind)
         /\ IF g.kind = "ok"
            THEN IF orch = "core" /\ ~enable_validation
                 THEN Succeed
                 ELSE /\ pc' = "accept"
                      /\ UNCHANGED <<attempt, feedback, result, error,
                                     store, writes, memCall, calls>>
            ELSE /\ IF g.kind = "ValueError"
                    THEN Continue(GenFeedback(g.text))
                    ELSE Abort(IF orch = "core" THEN g.text
                               ELSE <<"generation_failed">> \o g.text)
                 /\ UNCHANGED <<store, writes, memCall, calls>>
    /\ UNCHANGED <<orch, registryLoaded, requests, spec, specFile, ok, msg>>
    /\ UNCHANGED extVars

\* validate_dxf_file(output_file, spec_file)
Accept ==
    /\ pc = "accept"
    /\ LET r == validate_dxf_file(dxfFile, specFile) IN
         /\ ok' = r.ok
         /\ msg' = r.msg
         /\ trace' = Noted("acc", IF r.ok THEN "pass" ELSE "fail")
    /\ pc' = "engineering"
    /\ UNCHANGED <<orch, registryLoaded, attempt, feedback, requests, spec, specFile,
                   dxfFile, store, writes, memCall, calls, result, error>>
    /\ UNCHANGED extVars

\* the decision taken with the save to memory placed before the test of the
\* acceptance verdict
Engineering_saves_before_verdict ==
    /\ pc = "engineering"
    /\ trace' = Noted("eng", validate_part_design(spec))
    /\ LET e == validate_part_design(spec)
           saved == /\ store' = add_example(load_memory, UserInput, spec)
                    /\ writes' = IF add_example_saves(load_memory, UserInput)
                                  THEN writes + 1 ELSE writes
                    /\ memCall' = [input |-> UserInput, spec |-> spec]
                    /\ calls' = calls + 1
       IN
         IF orch = "core"
         THEN IF enable_engineering /\ e = "error"
              THEN Abort(<<"engineering_error">>) /\ UNCHANGED <<store, writes, memCall, calls>>
              ELSE IF ok
              THEN Succeed
              ELSE Continue(<<"validation_failed">> \o msg) /\ saved
         ELSE IF e = "error"
              THEN Continue(<<"acceptance_error", "engineering_error">>)
                   /\ UNCHANGED <<store, writes, memCall, calls>>
              ELSE IF ok
              THEN Succeed
              ELSE Continue(<<"acceptance_failed">> \o msg \o <<"fix_parameters">>) /\ saved
    /\ UNCHANGED <<orch, registryLoaded, requests, spec, specFile, dxfFile, ok, msg>>
    /\ UNCHANGED extVars

\* validate_part_design(...) and the decision that follows it
Engineering ==
    /\ pc = "engineering"
    /\ trace' = Noted("eng", validate_part_design(spec))
    /\ LET e == validate_part_design(spec) IN
         IF orch = "core"
         THEN IF enable_engineering /\ e = "error"
              THEN Abort(<<"engineering_error">>) /\ UNCHANGED <<store, writes, memCall, calls>>
              ELSE IF ok
              THEN Succeed
              ELSE Continue(<<"validation_failed">> \o msg)
                   /\ UNCHANGED <<store, writes, memCall, calls>>
         ELSE IF e = "error"
              THEN Continue(<<"acceptance_error", "engineering_error">>)
                   /\ UNCHANGED <<store, writes, memCall, calls>>
              ELSE IF ok
              THEN Succeed
              ELSE Continue(<<"acceptance_failed">> \o msg \o <<"fix_parameters">>)
                   /\ UNCHANGED <<store, writes, memCall, calls>>
    /\ UNCHANGED <<orch, registryLoaded, requests, spec, specFile, dxfFile, ok, msg>>
    /\ UNCHANGED extVars

GoodPlate == [type |-> "plate", validate |-> "ok", draw |-> "ok",
              accept |-> "pass", eng |-> "valid"]

GoodCustom == [type |-> "custom_code", validate |-> "ok", draw |-> "ok",
               accept |-> "pass", eng |-> "valid"]

\* a store as n earlier successful runs with inputs 1..n left it
Prefilled(n) == [i \in 1..n |-> [input |-> i, spec |-> GoodPlate]]

InitStores == {Prefilled(0), Prefilled(1), Prefilled(MEMORY_CAP),
               <<[input |-> UserInput, spec |-> GoodPlate]>>}

Init ==
    /\ orch \in {"core", "adv"}
    /\ registryLoaded \in BOOLEAN
    /\ pc = "infer"
    /\ attempt = FirstAttempt(orch)
    /\ feedback = <<>>
    /\ requests = <<>>
    /\ spec = NoSpec
    /\ specFile = NoSpec
    /\ dxfFile \in {NoFile, OldDoc}
    /\ ok = FALSE
    /\ msg = <<>>
    /\ store \in InitStores
    /\ writes = 0
    /\ memCall = NoCall
    /\ calls = 0
    /\ result = "none"
    /\ error = <<>>
    /\ trace = <<>>
    /\ ExtUnused

Next == Infer \/ Generate \/ Accept \/ Engineering

Spec == Init /\ [][Next]_vars

-----------------------------------------------------------------------------
(* The example store on its own: any sequence of add_example calls *)

MemInputs == {UserInput, 1, MEMORY_CAP} \cup (MEMORY_CAP + 1)..(MEMORY_CAP + MaxNewInputs)

MemSpecs == {GoodPlate, GoodCustom}

MemInit ==
    /\ orch = "core"
    /\ registryLoaded = FALSE
    /\ pc = "idle"
    /\ attempt = 0
    /\ feedback = <<>>
    /\ requests = <<>>
    /\ spec = NoSpec
    /\ specFile = NoSpec
    /\ dxfFile = NoFile
    /\ ok = FALSE
    /\ msg = <<>>
    /\ store \in {Prefilled(n) : n \in 0..MEMORY_CAP}
    /\ writes = 0
    /\ memCall = NoCall
    /\ calls = 0
    /\ result = "none"
    /\ error = <<>>
    /\ trace = <<>>
    /\ ExtUnused

\* add_example(user_input, spec)
AddExample ==
    /\ pc = "idle"
    /\ calls < MaxAdds
    /\ \E u \in MemInputs, s \in MemSpecs :
         /\ store' = add_example(load_memory, u, s)
         /\ writes' = IF add_example_saves(load_memory, u) THEN writes + 1 ELSE writes
         /\ memCall' = [input |-> u, spec |-> s]
    /\ calls' = calls + 1
    /\ UNCHANGED <<orch, registryLoaded, pc, attempt, feedback, requests, spec, specFile,
                   dxfFile, ok, msg, result, error, trace>>
    /\ UNCHANGED extVars

MemNext == AddExample

MemSpec == MemInit /\ [][MemNext]_vars

-----------------------------------------------------------------------------
(* Properties of the orchestrator *)

\* attempt k has ended (by continue, by a return, or by the end of the loop)
AttemptOver(k) == AttemptNo > k \/ pc = "done"

\* attempt k inferred a spec that generated and then failed acceptance
AcceptFailed(k) == trace[k].gen = "ok" /\ trace[k].acc = "fail"

\* generation of attempt k failed because validate rejected the parameters
ValidateRejected(k) ==
    /\ trace[k].infer = "spec"
    /\ trace[k].spec.type \in GENERATORS
    /\ trace[k].spec.validate # "ok"
    /\ trace[k].gen \notin {"none", "ok"}

\* generation of attempt k failed in draw or in the save, after validate passed
DrawFailed(k) ==
    /\ trace[k].infer = "spec"
    /\ trace[k].spec.type \in GENERATORS
    /\ trace[k].spec.validate = "ok"
    /\ trace[k].gen \notin {"none", "ok"}

\* C1: the inference collaborator is called at most N times, and a run in
\* which every inferred spec generated but failed acceptance makes exactly N
\* calls and ends with the result "max retries reached", never with success.
C1_BoundedAttempts ==
    /\ Len(requests) <= N
    /\ (pc = "done" /\ \A k \in 1..Len(trace) : AcceptFailed(k)) =>
         /\ result = "exhausted"
         /\ error = <<"max_retries_reached">>
         /\ Len(requests) = N

C3_AcceptFailureFeedback ==
    /\ Len(requests) >= 1 => requests[1] = <<>>
    /\ \A k \in 1..Len(trace) :
        (k < N /\ AcceptFailed(k) /\ AttemptOver(k)) =>
            LET m == trace[k].spec.accept
                carried == IF Len(requests) > k THEN requests[k + 1] ELSE feedback
            IN  /\ AttemptNo = k + 1 \/ Len(requests) > k
                /\ Contains(carried, m)
                /\ \A m2 \in AcceptOutcomes \ {m} : ~Contains(carried, m2)

\* C4: a failed inference step (transport error, or no parsable JSON in the
\* reply) ends the run at once with a failure result: nothing is generated or
\* accepted in that attempt, no attempt is consumed and no further inference
\* call is made.
C4_InferFailureEndsRun ==
    \A k \in 1..Len(trace) :
        trace[k].infer # "spec" =>
            /\ pc = "done"
            /\ result = "aborted"
            /\ Len(requests) = k
            /\ AttemptNo = k
            /\ trace[k].gen = "none" /\ trace[k].acc = "none"

\* C5: a failure of draw or of the save on parameters that passed validate
\* ends only the current attempt: while attempts remain the run goes on with
\* the next one.
C5_DrawFailureEndsAttemptOnly ==
    \A k \in 1..Len(trace) :
        (k < N /\ DrawFailed(k) /\ AttemptOver(k)) =>
            /\ result # "aborted" \/ Len(requests) > k
            /\ AttemptNo = k + 1 \/ Len(requests) > k

\* C6: the engineering validator never alters control flow: how an attempt
\* ends after its acceptance check is decided by the acceptance verdict
\* alone (whatever the engineering validator reports, and also when it
\* errors); an attempt whose acceptance passed ends the run in success, one
\* whose acceptance failed is followed by the next attempt or, for attempt
\* N, by the result "max retries reached".
C6_EngineeringAdvisory ==
    \A k \in 1..Len(trace) :
        (trace[k].acc # "none" /\ AttemptOver(k)) =>
            IF trace[k].acc = "pass"
            THEN result = "success" /\ Len(requests) = k
            ELSE IF k < N
            THEN AttemptNo = k + 1 \/ Len(requests) > k
            ELSE result = "exhausted"

\* C7: geometry is persisted only on success: once the attempt that wrote
\* the document at the output path is over, that document is there only if
\* its attempt passed acceptance; after a run that ended exhausted or aborted
\* no geometry of the run is at the output path.
C7_GeometryOnlyOnSuccess ==
    /\ (dxfFile.attempt >= 1 /\ AttemptOver(dxfFile.attempt)) =>
           trace[dxfFile.attempt].acc = "pass"
    /\ result \in {"exhausted", "aborted"} => dxfFile.attempt = 0

\* the entry a successful attempt hands to the example store
AcceptedPair == [input |-> UserInput, spec |-> trace[AttemptNo].spec]

-----------------------------------------------------------------------------
(* Properties of the example store *)

C10_DedupeByInput ==
    /\ [][(calls' = calls + 1 /\ HasInput(store, memCall'.input)) =>
            store' = store /\ writes' = writes]_vars
    /\ [](\A i, j \in 1..Len(store) : store[i].input = store[j].input => i = j)

\* the last call offered another spec for an input already stored, and the
\* stored spec is still the old one
C10_Witness ==
    /\ calls >= 1
    /\ writes < calls
    /\ \E i \in 1..Len(store) :
         store[i].input = memCall.input /\ store[i].spec # memCall.spec

-----------------------------------------------------------------------------
(* Specifications of parts of the program on their own: what they share *)

\* the variables of the single run that the other specifications leave alone
ctlVars == <<orch, registryLoaded, pc, attempt, feedback, requests, spec, ok, msg,
             memCall, calls, result, error, trace>>

CtlIdle ==
    /\ orch = "core"
    /\ registryLoaded = FALSE
    /\ pc = "idle"
    /\ attempt = 0
    /\ feedback = <<>>
    /\ requests = <<>>
    /\ spec = NoSpec
    /\ ok = FALSE
    /\ msg = <<>>
    /\ memCall = NoCall
    /\ calls = 0
    /\ result = "none"
    /\ error = <<>>
    /\ trace = <<>>

-----------------------------------------------------------------------------
(* Concurrent writers of the example store: memory.py, two callers *)

Writers == {1, 2}

\* the input texts of the two callers: distinct, and not in a prefilled store
WriterInput(p) == MEMORY_CAP + p

MaxPrefill == 2

\* what a step of a writer leaves alone
storeFrame == <<ctlVars, specFile, dxfFile, runs, http, gen, part, catalog, doc, turtle>>

\* entries = load_memory(), then the dedupe loop of add_example
WriterLoad(p) ==
    /\ writers[p].pc = "load"
    /\ writers' = [writers EXCEPT ![p] =
                     [@ EXCEPT !.entries = load_memory,
                               !.pc = IF HasInput(load_memory, writers[p].input)
                                      THEN "done" ELSE "open"]]
    /\ UNCHANGED <<store, writes>>
    /\ UNCHANGED storeFrame

\* save_memory: open(MEMORY_FILE, "w") truncates the file; a reader that
\* finds it empty gets [] from load_memory (json.load raises)
WriterOpen(p) ==
    /\ writers[p].pc = "open"
    /\ store' = <<>>
    /\ writers' = [writers EXCEPT ![p].pc = "dump"]
    /\ UNCHANGED writes
    /\ UNCHANGED storeFrame

\* save_memory: json.dump of the caller's own list, appended and capped
WriterDump(p) ==
    /\ writers[p].pc = "dump"
    /\ store' = add_example(writers[p].entries, writers[p].input, writers[p].spec)
    /\ writes' = writes + 1
    /\ writers' = [writers EXCEPT ![p].pc = "done"]
    /\ UNCHANGED storeFrame

StoreConcInit ==
    /\ CtlIdle
    /\ specFile = NoSpec
    /\ dxfFile = NoFile
    /\ writes = 0
    /\ \E n \in 0..MaxPrefill :
         /\ store = Prefilled(n)
         /\ \E s1 \in MemSpecs, s2 \in MemSpecs :
              writers = [p \in Writers |->
                           [pc |-> "load", input |-> WriterInput(p),
                            spec |-> IF p = 1 THEN s1 ELSE s2,
                            entries |-> <<>>, initial |-> Prefilled(n)]]
    /\ runs = Unused /\ http = Unused /\ gen = Unused /\ part = Unused /\ catalog = Unused
    /\ doc = Unused /\ turtle = Unused

StoreConcNext == \E p \in Writers : WriterLoad(p) \/ WriterOpen(p) \/ WriterDump(p)

StoreConcSpec == StoreConcInit /\ [][StoreConcNext]_vars

\* C11: writers to the example store are serialized: after two concurrent
\* add_example calls with distinct new input texts have both completed, both
\* entries are in the store and no entry stored before is lost.
C11_ConcurrentWritersKeepBoth ==
    (\A p \in Writers : writers[p].pc = "done") =>
        /\ \A p \in Writers : HasInput(store, writers[p].input)
        /\ \A i \in 1..Len(writers[1].initial) :
             HasInput(store, writers[1].initial[i].input)

-----------------------------------------------------------------------------
(* Two concurrent runs of CADAgent.run in one working directory *)

Runs == {"A", "B"}

\* config.output.default_dxf, and a file name of the caller's own
default_dxf == "agent_output.dxf"

OutputFiles == {default_dxf} \cup {"A.dxf", "B.dxf"}

OwnFile(r) == IF r = "A" THEN "A.dxf" ELSE "B.dxf"

BadAcceptPlate == [type |-> "plate", validate |-> "ok", draw |-> "ok",
                   accept |-> "outline_size_mismatch", eng |-> "valid"]

\* the candidate specs the inference returns in these runs: all of them
\* generate; one of them fails acceptance, so that attempts repeat
RunSpecs == {GoodPlate, GoodCustom, BadAcceptPlate}

\* a file as written by attempt a of run r
Written(s, r, a) == [spec |-> s, run |-> r, attempt |-> a]

NotWritten == Written(NoSpec, "none", 0)

\* the file as validate_dxf_file sees it: the content without its writer
AsDxf(f) == IF f = NotWritten THEN NoFile ELSE [spec |-> f.spec, attempt |-> 0]

NotInspected == [spec |-> NotWritten, dxf |-> NotWritten]

\* what a step of a run leaves alone
runFrame == <<ctlVars, store, writes, writers, http, gen, part, catalog, doc, turtle>>

\* spec, reasoning = self.spec_generator.generate(context)
RunInfer(r) ==
    /\ runs[r].pc = "infer"
    /\ \E s \in RunSpecs :
         runs' = [runs EXCEPT ![r].pc = "save_spec", ![r].spec = s,
                              ![r].attempt = runs[r].attempt + 1]
    /\ UNCHANGED <<specFile, dxfFile>>
    /\ UNCHANGED runFrame

\* with open("temp_spec.json", "w") ...: json.dump(spec, f)
RunSaveSpec(r) ==
    /\ runs[r].pc = "save_spec"
    /\ specFile' = Written(runs[r].spec, r, runs[r].attempt)
    /\ runs' = [runs EXCEPT ![r].pc = "generate"]
    /\ UNCHANGED dxfFile
    /\ UNCHANGED runFrame

\* self.part_generator.generate(spec, output_file)
RunGenerate(r) ==
    /\ runs[r].pc = "generate"
    /\ generate_part(runs[r].spec, FALSE, TRUE).wrote
    /\ dxfFile' = [dxfFile EXCEPT ![runs[r].output_file] =
                     Written(runs[r].spec, r, runs[r].attempt)]
    /\ runs' = [runs EXCEPT ![r].pc = "accept"]
    /\ UNCHANGED specFile
    /\ UNCHANGED runFrame

\* self.part_validator.validate(spec, output_file), then the verdict: return
\* on success, continue with feedback otherwise, until max_iterations
RunAccept(r) ==
    /\ runs[r].pc = "accept"
    /\ LET v == validate_dxf_file(AsDxf(dxfFile[runs[r].output_file]), specFile.spec)
       IN runs' = [runs EXCEPT
                     ![r].inspected = [spec |-> specFile,
                                       dxf |-> dxfFile[runs[r].output_file]],
                     ![r].pc = IF v.ok THEN "done"
                               ELSE IF runs[r].attempt < max_iterations
                               THEN "infer" ELSE "done",
                     ![r].result = IF v.ok THEN "success"
                                   ELSE IF runs[r].attempt < max_iterations
                                   THEN "none" ELSE "failure"]
    /\ UNCHANGED <<specFile, dxfFile>>
    /\ UNCHANGED runFrame

RunsInit ==
    /\ CtlIdle
    /\ store = <<>>
    /\ writes = 0
    /\ specFile = NotWritten
    /\ dxfFile = [f \in OutputFiles |-> NotWritten]
    /\ \E oa \in {default_dxf, OwnFile("A")}, ob \in {default_dxf, OwnFile("B")} :
         runs = [r \in Runs |->
                   [pc |-> "infer", attempt |-> 0, spec |-> NoSpec,
                    output_file |-> IF r = "A" THEN oa ELSE ob,
                    inspected |-> NotInspected, result |-> "none"]]
    /\ writers = Unused /\ http = Unused /\ gen = Unused /\ part = Unused /\ catalog = Unused
    /\ doc = Unused /\ turtle = Unused

RunsNext ==
    \E r \in Runs : RunInfer(r) \/ RunSaveSpec(r) \/ RunGenerate(r) \/ RunAccept(r)

RunsSpec == RunsInit /\ [][RunsNext]_vars

\* C12: concurrent runs share no mutable state besides the example store and
\* the registry: whatever the interleaving, the acceptance check of an attempt
\* of a run inspects the spec and the geometry written by that same attempt of
\* that same run, never a file written by the other run.
C12_AcceptanceInspectsOwnAttempt ==
    \A r \in Runs :
        runs[r].inspected # NotInspected =>
            /\ runs[r].inspected.spec.run = r
            /\ runs[r].inspected.dxf.run = r
            /\ runs[r].inspected.spec.attempt = runs[r].inspected.dxf.attempt

-----------------------------------------------------------------------------
(* The transport retries of one inference call, inside the attempt loop *)

\* APIConfig.max_retries, and the default of nl_to_spec_llm._send_request
config_max_retries == 3

urllib_max_retries == 5

\* the retry budget of one _send_request under orchestrator o
max_retries(o) == IF o = "core" THEN config_max_retries ELSE urllib_max_retries

\* what the server answers to one HTTP request
Responses == {"ok", "no_choices", "429", "http_error", "timeout", "connection_error"}

\* one iteration of the _send_request loop that is not a usable answer, with
\* the responses it repeats on replaced by always repeating on a rate limit
send_request_retries_forever(o, try, resp) ==
    IF resp \in {"ok", "no_choices"} THEN "return"
    ELSE IF resp = "429" THEN "retry"
    ELSE "raise"

\* one iteration of the _send_request loop, after the response resp to
\* iteration try (from 0): "return" the data, "retry", or "raise"
send_request(o, try, resp) ==
    IF resp \in {"ok", "no_choices"} THEN "return"
    ELSE IF resp = "429"
    THEN IF try + 1 < max_retries(o) THEN "retry" ELSE "raise"
    ELSE IF resp = "http_error" THEN "raise"
    ELSE IF o = "core" /\ try < max_retries(o) - 1 THEN "retry"
    ELSE "raise"

\* the most HTTP requests one inference call can make: the primary model and
\* the fallback model, a full _send_request each
PerCallBudget(o) == 2 * max_retries(o)

\* the last HTTP request of the run: its response, the loop iteration it was
\* sent in, and what _send_request did next
NoRequest == [resp |-> "none", try |-> 0, step |-> "none"]

NewCall(fb) ==
    [model |-> "primary", try |-> 0, inCall |-> 0, total |-> 0, fallback |-> fb,
     last |-> NoRequest]

\* what a step of the transport leaves alone
httpFrame == <<registryLoaded, feedback, requests, spec, ok, msg, memCall, calls, trace,
               specFile, dxfFile, store, writes, writers, runs, gen, part, catalog, doc, turtle>>

\* the next iteration of the attempt loop calls chat_completion /
\* _call_chat_completion with the primary model
CallStart ==
    /\ pc = "infer"
    /\ attempt < N
    /\ attempt' = attempt + 1
    /\ http' = [http EXCEPT !.model = "primary", !.try = 0, !.inCall = 0]
    /\ pc' = "request"
    /\ UNCHANGED <<orch, result, error>>
    /\ UNCHANGED httpFrame

\* the call failed for good: APIClientError / the urllib error leaves the
\* attempt loop by `except Exception`
CallRaises == 
    /\ pc' = "done"
    /\ result' = "failure"
    /\ error' = <<"llm_call_failed", "api_error">>

\* chat_completion / _call_chat_completion after a failed _send_request or an
\* answer without content
CallFails(h) ==
    IF h.model = "primary" /\ h.fallback
    THEN /\ http' = [h EXCEPT !.model = "fallback", !.try = 0]
         /\ UNCHANGED <<pc, result, error>>
    ELSE /\ http' = h
         /\ CallRaises

\* one HTTP request of _send_request and what follows its response
Request ==
    /\ pc = "request"
    /\ \E resp \in Responses :
         LET step == send_request(orch, http.try, resp)
             sent == [http EXCEPT !.inCall = @ + 1, !.total = @ + 1,
                                  !.last = [resp |-> resp, try |-> http.try,
                                            step |-> step]]
         IN \/ /\ step = "retry"
               /\ http' = [sent EXCEPT !.try = @ + 1]
               /\ UNCHANGED <<pc, result, error>>
            \/ /\ step = "raise"
               /\ CallFails(sent)
            \/ /\ step = "return" /\ resp = "no_choices"
               /\ IF orch = "core" THEN CallFails(sent)
                  ELSE http' = sent /\ CallRaises
            \/ /\ step = "return" /\ resp = "ok"
               /\ http' = sent
               /\ pc' = "rest"
               /\ UNCHANGED <<result, error>>
    /\ UNCHANGED <<orch, attempt>>
    /\ UNCHANGED httpFrame

\* the rest of the attempt after the inference call returned: parsing,
\* generation and acceptance end the run or continue with the next attempt
AttemptRest ==
    /\ pc = "rest"
    /\ \/ /\ pc' = "done" /\ result' = "success" /\ UNCHANGED error
       \/ /\ pc' = "done" /\ result' = "failure" /\ error' = <<"generation_failed">>
       \/ IF attempt < N
          THEN pc' = "infer" /\ UNCHANGED <<result, error>>
          ELSE /\ pc' = "done" /\ result' = "failure"
               /\ error' = <<"max_retries_reached">>
    /\ UNCHANGED <<orch, attempt, http>>
    /\ UNCHANGED httpFrame

TransportInit ==
    /\ orch \in {"core", "advanced"}
    /\ registryLoaded = FALSE
    /\ pc = "infer"
    /\ attempt = 0
    /\ feedback = <<>> /\ requests = <<>> /\ spec = NoSpec /\ ok = FALSE /\ msg = <<>>
    /\ memCall = NoCall /\ calls = 0 /\ result = "none" /\ error = <<>> /\ trace = <<>>
    /\ specFile = NoSpec /\ dxfFile = NoFile /\ store = <<>> /\ writes = 0
    /\ http \in {NewCall(fb) : fb \in BOOLEAN}
    /\ writers = Unused /\ runs = Unused /\ gen = Unused /\ part = Unused /\ catalog = Unused
    /\ doc = Unused /\ turtle = Unused

TransportNext == CallStart \/ Request \/ AttemptRest

TransportSpec == TransportInit /\ [][TransportNext]_vars

\* C13: the transport retries are nested inside the attempt loop and
\* independent of it: an HTTP request (first try, retry or fallback) never
\* advances the attempt counter; every inference call starts with the primary
\* model and a full retry budget whatever earlier calls used; no call makes
\* more requests than its budget, so a run makes at most N times that many.
C13_TransportNestedInAttempts ==
    [][/\ http'.total # http.total => attempt' = attempt
       /\ attempt' # attempt =>
            /\ attempt' = attempt + 1
            /\ http'.model = "primary" /\ http'.try = 0 /\ http'.inCall = 0
            /\ http'.total = http.total
       /\ http'.inCall <= PerCallBudget(orch)
       /\ http'.total <= attempt' * PerCallBudget(orch)
       /\ http'.total <= N * PerCallBudget(orch)]_vars

\* a run whose calls all used up both models' retries, in its last attempt
C13_Witness ==
    /\ attempt = N
    /\ http.model = "fallback"
    /\ http.total = N * PerCallBudget(orch) - 1
    /\ pc = "request"

-----------------------------------------------------------------------------
(* One call of generate_part(spec, output_file), statement by statement *)

\* the generation before its first statement
NewGeneration == [pc |-> "import", path |-> "none", events |-> <<>>, doc |-> FALSE,
                  drawn |-> FALSE, failedAt |-> "none", outcome |-> "none"]

\* what a statement of generate_part leaves alone
genFrame == <<orch, registryLoaded, pc, attempt, feedback, requests, spec, ok, msg,
              memCall, calls, result, error, trace, specFile, store, writes,
              writers, runs, http, part, catalog, doc, turtle>>

\* the generation ends by raising kind at the statement at
GenRaise(at, kind) == [gen EXCEPT !.pc = "done", !.failedAt = at, !.outcome = kind,
                                  !.events = Append(@, at)]

\* the generation goes on to statement next after statement at
GenPass(at, next) == [gen EXCEPT !.pc = next, !.events = Append(@, at)]

\* from core.registry import create_generator; import parts
GenImport ==
    /\ gen.pc = "import"
    /\ gen' = [gen EXCEPT !.pc = IF registryLoaded THEN "registry_lookup"
                                 ELSE "legacy_lookup"]
    /\ UNCHANGED dxfFile
    /\ UNCHANGED genFrame

\* generator = create_generator(part_spec.type), RegistrationError falls
\* back to the legacy table
GenRegistryLookup ==
    /\ gen.pc = "registry_lookup"
    /\ gen' = IF create_generator(spec.type)
              THEN [GenPass("lookup", "validate") EXCEPT !.path = "registry"]
              ELSE [gen EXCEPT !.pc = "legacy_lookup"]
    /\ UNCHANGED dxfFile
    /\ UNCHANGED genFrame

\* if part_type not in GENERATORS: raise ValueError
GenLegacyLookup ==
    /\ gen.pc = "legacy_lookup"
    /\ gen' = IF spec.type \in GENERATORS
              THEN [GenPass("lookup", "validate") EXCEPT !.path = "legacy"]
              ELSE GenRaise("lookup", "ValueError")
    /\ UNCHANGED dxfFile
    /\ UNCHANGED genFrame

\* validate that runs only after the document has been created
GenValidate_after_document ==
    /\ gen.pc = "validate"
    /\ gen' = IF spec.validate = "ok"
              THEN [GenPass("validate", "draw") EXCEPT
                      !.doc = TRUE, !.events = <<"lookup", "document", "validate">>]
              ELSE [GenRaise("validate", "ValueError") EXCEPT
                      !.doc = TRUE, !.events = <<"lookup", "document", "validate">>]
    /\ UNCHANGED dxfFile
    /\ UNCHANGED genFrame

\* self.validate(params) / generator["validate"](params)
GenValidate ==
    /\ gen.pc = "validate"
    /\ gen' = IF spec.validate = "ok"
              THEN GenPass("validate", "document")
              ELSE GenRaise("validate", IF gen.path = "registry"
                                        THEN "ValidationError" ELSE "ValueError")
    /\ UNCHANGED dxfFile
    /\ UNCHANGED genFrame

\* doc = self.setup_dxf() / ezdxf.new("R2010", setup=True) and its layers
GenDocument ==
    /\ gen.pc = "document"
    /\ gen' = [GenPass("document", "draw") EXCEPT !.doc = TRUE]
    /\ UNCHANGED dxfFile
    /\ UNCHANGED genFrame

\* self.draw(doc, params) / generator["draw"](doc, params)
GenDraw ==
    /\ gen.pc = "draw"
    /\ gen' = IF spec.draw = "ok"
              THEN [GenPass("draw", "save") EXCEPT !.drawn = TRUE]
              ELSE [GenRaise("draw", IF gen.path = "registry" THEN "GenerationError"
                                     ELSE spec.draw)
                      EXCEPT !.drawn = TRUE]
    /\ UNCHANGED dxfFile
    /\ UNCHANGED genFrame

\* doc.saveas(output_file)
GenSave ==
    /\ gen.pc = "save"
    /\ \E saveOk \in BOOLEAN :
         IF saveOk
         THEN /\ dxfFile' = [spec |-> spec, attempt |-> 1]
              /\ gen' = [GenPass("save", "done") EXCEPT !.outcome = "ok"]
         ELSE /\ UNCHANGED dxfFile
              /\ gen' = GenRaise("save", IF gen.path = "registry" THEN "GenerationError"
                                         ELSE "Other")
    /\ UNCHANGED genFrame

GenInit ==
    /\ orch = "core"
    /\ registryLoaded \in BOOLEAN
    /\ spec \in Specs
    /\ pc = "generate"
    /\ attempt = 1
    /\ feedback = <<>> /\ requests = <<>> /\ ok = FALSE /\ msg = <<>>
    /\ memCall = NoCall /\ calls = 0 /\ result = "none" /\ error = <<>> /\ trace = <<>>
    /\ specFile = spec /\ dxfFile = OldDoc /\ store = <<>> /\ writes = 0
    /\ gen = NewGeneration
    /\ writers = Unused /\ runs = Unused /\ http = Unused /\ part = Unused /\ catalog = Unused
    /\ doc = Unused /\ turtle = Unused

GenNext ==
    \/ GenImport \/ GenRegistryLookup \/ GenLegacyLookup \/ GenValidate
    \/ GenDocument \/ GenDraw \/ GenSave

GenSpec == GenInit /\ [][GenNext]_vars

\* position of the first occurrence of event e in the generation, 0 if none
FirstEvent(e) ==
    IF \E i \in 1..Len(gen.events) : gen.events[i] = e
    THEN CHOOSE i \in 1..Len(gen.events) :
           gen.events[i] = e /\ \A j \in 1..(i - 1) : gen.events[j] # e
    ELSE 0

SideEffects == {"document", "draw", "save"}

\* C14: in every generation the family lookup precedes validate and
\* validate precedes every drawing side effect (document creation, draw,
\* save); when the lookup or validate fails, no document was created, nothing
\* was drawn and the output file is as it was before the generation.
C14_LookupValidateBeforeSideEffects ==
    /\ \A i \in 1..Len(gen.events) :
         /\ gen.events[i] = "validate" =>
              (FirstEvent("lookup") > 0 /\ FirstEvent("lookup") < i)
         /\ gen.events[i] \in SideEffects =>
              (FirstEvent("validate") > 0 /\ FirstEvent("validate") < i)
    /\ gen.failedAt \in {"lookup", "validate"} =>
         /\ ~gen.doc /\ ~gen.drawn /\ dxfFile = OldDoc
         /\ \A i \in 1..Len(gen.events) : gen.events[i] \notin SideEffects
    /\ (gen.doc \/ gen.drawn \/ dxfFile # OldDoc) => FirstEvent("validate") > 0

\* a generation of the class registry that ended at a failing validate
C14_Witness ==
    /\ gen.pc = "done"
    /\ gen.path = "registry"
    /\ gen.failedAt = "validate"
    /\ gen.events = <<"lookup", "validate">>

-----------------------------------------------------------------------------
(* validate and draw of single families, on enumerated parameters *)

\* the two implementations of a family: the class of parts/ served by the
\* registry, and the function pair of the GENERATORS table of gen_parts.py
Generators == {"class", "legacy"}

MaxSections == 3

Diameters == {0, 20, 25, 30}

Lengths == {0, 40}

Sections == [diameter : Diameters, length : Lengths]

SectionLists == UNION {[1..n -> Sections] : n \in 0..MaxSections}

SpringParams == [wire_diameter : {0, 2}, coil_diameter : {2, 20},
                 free_length : {0, 80}, coils : {0, 2, 8}]

\* the code parameter of custom_code by what executing it does; "" is the
\* empty string
Scripts == {"", "runs", "raises_Exception", "raises_SystemExit"}

\* _validate_spring / SpringGenerator.validate: TRUE when it returns
validate_spring(p) ==
    ~(p.wire_diameter <= 0 \/ p.coil_diameter <= p.wire_diameter \/ p.free_length <= 0)

\* _draw_spring / SpringGenerator.draw: the exception it raises, "none" if
\* it returns; pitch = (free_length - 2 * wire_dia) / coils
draw_spring(p) == IF p.coils = 0 THEN "ZeroDivisionError" ELSE "none"

\* _validate_stepped_shaft of gen_parts.py
validate_stepped_shaft(sections) ==
    /\ ~(Len(sections) < 2)
    /\ \A i \in 1..Len(sections) :
         ~(sections[i].diameter <= 0 \/ sections[i].length <= 0)
    /\ \A i \in 1..(Len(sections) - 1) :
         ~(sections[i].diameter < sections[i + 1].diameter)

\* SteppedShaftGenerator.validate of parts/shaft.py
SteppedShaftGenerator_validate(sections) ==
    /\ ~(Len(sections) < 2)
    /\ \A i \in 1..Len(sections) :
         /\ ~(sections[i].diameter <= 0)
         /\ ~(sections[i].length <= 0)

\* _validate_custom_code / CustomCodeGenerator.validate
validate_custom_code(code) == code # ""

\* _draw_custom_code / CustomCodeGenerator.draw: exec(code) in
\* try ... except Exception, the handler adding the error text
draw_custom_code(code, hasSetPos) ==
    IF code = "raises_Exception"
    THEN [raised |-> IF hasSetPos THEN "none" ELSE "AttributeError", annotation |-> TRUE]
    ELSE IF code = "raises_SystemExit"
    THEN [raised |-> "SystemExit", annotation |-> FALSE]
    ELSE [raised |-> "none", annotation |-> FALSE]

\* validate of family f in generator g on parameters p
validate(g, f, p) ==
    IF f = "spring" THEN validate_spring(p)
    ELSE IF f = "custom_code" THEN validate_custom_code(p.code)
    ELSE IF g = "legacy" THEN validate_stepped_shaft(p.sections)
    ELSE SteppedShaftGenerator_validate(p.sections)

\* draw of family f on parameters p: what it raises and whether it added
\* the error text
draw(f, p, hasSetPos) ==
    IF f = "spring" THEN [raised |-> draw_spring(p), annotation |-> FALSE]
    ELSE IF f = "custom_code" THEN draw_custom_code(p.code, hasSetPos)
    ELSE [raised |-> "none", annotation |-> FALSE]

PartInputs ==
    {[family |-> "spring", params |-> p] : p \in SpringParams}
    \cup {[family |-> "custom_code", params |-> [code |-> c]] : c \in Scripts}
    \cup {[family |-> "stepped_shaft", params |-> [sections |-> s]] : s \in SectionLists}

\* what validate and draw leave alone
partFrame == <<ctlVars, specFile, dxfFile, store, writes, writers, runs, http, gen, catalog, doc, turtle>>

\* generator.validate(params)
PartValidate ==
    /\ part.stage = "input"
    /\ part' = [part EXCEPT !.stage = IF validate(part.generator, part.family, part.params)
                                      THEN "validated" ELSE "rejected"]
    /\ UNCHANGED partFrame

\* generator.draw(doc, params) on a fresh document, after validate returned
PartDraw ==
    /\ part.stage = "validated"
    /\ LET d == draw(part.family, part.params, part.hasSetPos)
       IN part' = [part EXCEPT !.stage = "drawn", !.raised = d.raised,
                               !.annotation = d.annotation]
    /\ UNCHANGED partFrame

PartInit ==
    /\ CtlIdle
    /\ specFile = NoSpec /\ dxfFile = NoFile /\ store = <<>> /\ writes = 0
    /\ \E i \in PartInputs, g \in Generators, sp \in BOOLEAN :
         part = [family |-> i.family, params |-> i.params, generator |-> g,
                 hasSetPos |-> sp, stage |-> "input", raised |-> "none",
                 annotation |-> FALSE]
    /\ writers = Unused /\ runs = Unused /\ http = Unused /\ gen = Unused /\ catalog = Unused
    /\ doc = Unused /\ turtle = Unused

PartNext == PartValidate \/ PartDraw

PartSpec == PartInit /\ [][PartNext]_vars

\* C15: for every family and every parameter set that the family's validate
\* accepts, draw on a fresh document completes without raising.
C15_DrawNeverRaisesOnValidated ==
    part.stage = "drawn" => part.raised = "none"

\* C16: for the custom-code family no failure of the executed script
\* propagates out of draw: however the script fails, draw returns normally
\* after adding an error text to the document.
C16_ScriptFailureNeverPropagates ==
    (/\ part.family = "custom_code"
     /\ part.stage = "drawn"
     /\ part.params.code \in {"raises_Exception", "raises_SystemExit"})
        => (part.raised = "none" /\ part.annotation)

\* the rule of the stepped shaft: at least 2 sections, positive dimensions,
\* diameters that never increase along the list
SteppedShaftRule(sections) ==
    /\ Len(sections) >= 2
    /\ \A i \in 1..Len(sections) : sections[i].diameter > 0 /\ sections[i].length > 0
    /\ \A i \in 1..(Len(sections) - 1) : sections[i].diameter >= sections[i + 1].diameter

\* C20: stepped-shaft validate succeeds if and only if there are at least 2
\* sections, every section has a strictly positive diameter and length, and
\* the diameters are non-increasing in the listed order, in every generator
\* that serves the family.
C20_SteppedShaftValidateIffRule ==
    (part.family = "stepped_shaft" /\ part.stage # "input")
        => (part.stage \in {"validated", "drawn"} <=> SteppedShaftRule(part.params.sections))

-----------------------------------------------------------------------------
(* Unknown families in the run of the orchestrator *)

\* generation of attempt k failed because no catalog binds the family
UnknownFamily(k) ==
    /\ trace[k].infer = "spec"
    /\ trace[k].spec.type \notin (GENERATORS \cup RegisteredTypes)
    /\ trace[k].gen \notin {"none", "ok"}

\* C17: an unknown family is fatal: when generation fails because the spec
\* names a family bound in no generator catalog, the run ends at once with a
\* failure result and no further inference attempt is made.
C17_UnknownFamilyFatal ==
    \A k \in 1..Len(trace) :
        UnknownFamily(k) =>
            /\ pc = "done"
            /\ result \in {"aborted", "exhausted"}
            /\ Len(requests) = k

-----------------------------------------------------------------------------
(* The generator registry: core/registry.py *)

FamilyIds == {"plate", "spring"}

Factories == {"PlateGenerator", "SpringGenerator"}

\* Python's None: no part_type given, no generator bound
None == "None"

\* GeneratorRegistry._generators as a total map, None where no key is bound
EmptyCatalog == [id \in FamilyIds |-> None]

NoOp == [op |-> "none", id |-> None, factory |-> None, outcome |-> "none", returned |-> None]

\* the record of a finished call
Called(op, id, factory, outcome, returned) ==
    [op |-> op, id |-> id, factory |-> factory, outcome |-> outcome, returned |-> returned]

\* part_type in cls._generators
Bound(generators, id) == id \in FamilyIds /\ generators[id] # None

\* GeneratorRegistry.register that rebinds an id that is already bound
register_overwrites(generators, id, factory) ==
    [outcome |-> "ok", generators |-> [generators EXCEPT ![id] = factory]]

\* GeneratorRegistry.register(part_type, generator_class)
register(generators, id, factory) ==
    IF Bound(generators, id)
    THEN [outcome |-> "RegistrationError", generators |-> generators]
    ELSE [outcome |-> "ok", generators |-> [generators EXCEPT ![id] = factory]]

\* GeneratorRegistry.get(part_type): cls._generators.get(part_type)
get(generators, id) == generators[id]

\* GeneratorRegistry.create_instance(part_type)
create_instance(generators, id) ==
    IF get(generators, id) = None
    THEN [outcome |-> "RegistrationError", returned |-> None]
    ELSE [outcome |-> "ok", returned |-> <<"instance", get(generators, id)>>]

\* the first factory registered for each id since the catalog was last empty
FirstBound(first, id, factory) ==
    IF first[id] = None THEN [first EXCEPT ![id] = factory] ELSE first

\* what a call of the registry leaves alone
regFrame == <<ctlVars, specFile, dxfFile, store, writes, writers, runs, http, gen, part,
              doc, turtle>>

\* GeneratorRegistry.register called directly
Register ==
    /\ \E id \in FamilyIds, f \in Factories :
         LET r == register(catalog.generators, id, f)
         IN catalog' = [generators |-> r.generators,
                        first |-> FirstBound(catalog.first, id, f),
                        last |-> Called("register", id, f, r.outcome, None)]
    /\ UNCHANGED regFrame

\* the decorator register_generator(part_type)(generator_class): the id is
\* the decorator's argument or else the part_type attribute of the class
RegisterGenerator ==
    /\ \E arg \in FamilyIds \cup {None}, attr \in FamilyIds \cup {None}, f \in Factories :
         LET pt == IF arg # None THEN arg ELSE attr
         IN IF pt = None
            THEN catalog' = [catalog EXCEPT
                               !.last = Called("register_generator", None, f,
                                               "RegistrationError", None)]
            ELSE LET r == register(catalog.generators, pt, f)
                 IN catalog' = [generators |-> r.generators,
                                first |-> FirstBound(catalog.first, pt, f),
                                last |-> Called("register_generator", pt, f, r.outcome,
                                                IF r.outcome = "ok" THEN f ELSE None)]
    /\ UNCHANGED regFrame

\* GeneratorRegistry.get and the module-level get_generator
Get ==
    /\ \E op \in {"get", "get_generator"}, id \in FamilyIds :
         catalog' = [catalog EXCEPT
                       !.last = Called(op, id, None, "ok", get(catalog.generators, id))]
    /\ UNCHANGED regFrame

\* GeneratorRegistry.create_instance and the module-level create_generator
CreateInstance ==
    /\ \E op \in {"create_instance", "create_generator"}, id \in FamilyIds :
         LET r == create_instance(catalog.generators, id)
         IN catalog' = [catalog EXCEPT
                          !.last = Called(op, id, None, r.outcome, r.returned)]
    /\ UNCHANGED regFrame

\* GeneratorRegistry.clear()
Clear ==
    /\ catalog' = [generators |-> EmptyCatalog, first |-> EmptyCatalog,
                   last |-> Called("clear", None, None, "ok", None)]
    /\ UNCHANGED regFrame

RegInit ==
    /\ CtlIdle
    /\ specFile = NoSpec /\ dxfFile = NoFile /\ store = <<>> /\ writes = 0
    /\ catalog = [generators |-> EmptyCatalog, first |-> EmptyCatalog, last |-> NoOp]
    /\ writers = Unused /\ runs = Unused /\ http = Unused /\ gen = Unused /\ part = Unused
    /\ doc = Unused /\ turtle = Unused

RegNext == Register \/ RegisterGenerator \/ Get \/ CreateInstance \/ Clear

RegSpec == RegInit /\ [][RegNext]_vars

RegisterOps == {"register", "register_generator"}

LookupOps == {"get", "get_generator", "create_instance", "create_generator"}

\* C18: register on an id that is already bound fails with the duplicate
\* registration error and leaves the catalog unchanged; on an unbound id it
\* binds exactly that id to the factory and changes no other binding; hence
\* every id is bound to the first factory registered for it.
C18_RegisterKeepsFirstBinding ==
    [][(catalog'.last.op \in RegisterOps /\ catalog'.last.id # None) =>
         LET id == catalog'.last.id
             f  == catalog'.last.factory
         IN /\ Bound(catalog.generators, id) =>
                 /\ catalog'.last.outcome = "RegistrationError"
                 /\ catalog'.generators = catalog.generators
            /\ ~Bound(catalog.generators, id) =>
                 /\ catalog'.last.outcome = "ok"
                 /\ catalog'.generators[id] = f
                 /\ \A other \in FamilyIds \ {id} :
                      catalog'.generators[other] = catalog.generators[other]
            /\ catalog'.generators = catalog'.first]_vars

\* a second registration of a bound id with another factory has been refused
C18_Witness ==
    /\ catalog.last.op \in RegisterOps
    /\ catalog.last.outcome = "RegistrationError"
    /\ catalog.last.id # None
    /\ catalog.generators[catalog.last.id] # None
    /\ catalog.generators[catalog.last.id] # catalog.last.factory

\* C19: for every id, lookup returns the factory bound to it when one is
\* bound and otherwise fails with the unknown-family error instead of
\* returning a value, for get, get_generator, create_instance and
\* create_generator alike.
C19_LookupReturnsOrFails ==
    catalog.last.op \in LookupOps =>
        IF Bound(catalog.generators, catalog.last.id)
        THEN /\ catalog.last.outcome = "ok"
             /\ catalog.last.returned \in
                  {catalog.generators[catalog.last.id],
                   <<"instance", catalog.generators[catalog.last.id]>>}
        ELSE catalog.last.outcome = "RegistrationError"

-----------------------------------------------------------------------------
(* DXF documents: the entities of the model space with their extents *)

Min2(a, b) == IF a <= b THEN a ELSE b

Max2(a, b) == IF a >= b THEN a ELSE b

Abs(a) == IF a >= 0 THEN a ELSE 0 - a

\* the extents of an entity: x0..x1 by y0..y1
Box(x0, x1, y0, y1) == [x0 |-> x0, x1 |-> x1, y0 |-> y0, y1 |-> y1]

\* an entity of the model space; feat names the feature of the part it
\* belongs to, closed is the closed flag of a polyline
Entity(kind, layer, closed, feat, box) ==
    [kind |-> kind, layer |-> layer, closed |-> closed, feat |-> feat, box |-> box]

\* msp.add_line(p1, p2, dxfattribs={"layer": layer})
add_line(x1, y1, x2, y2, layer, feat) ==
    Entity("LINE", layer, FALSE, feat, Box(Min2(x1, x2), Max2(x1, x2), Min2(y1, y2), Max2(y1, y2)))

\* msp.add_circle(center, radius, dxfattribs={"layer": layer})
add_circle(cx, cy, r, layer, feat) ==
    Entity("CIRCLE", layer, FALSE, feat, Box(cx - r, cx + r, cy - r, cy + r))

\* msp.add_arc(center, radius, start, end, ...): counter-clockwise from start
\* to end, for the quarter and half arcs the generators draw
add_arc(cx, cy, r, start, end, layer, feat) ==
    Entity("ARC", layer, FALSE, feat,
           IF <<start, end>> = <<0, 90>> THEN Box(cx, cx + r, cy, cy + r)
           ELSE IF <<start, end>> = <<90, 180>> THEN Box(cx - r, cx, cy, cy + r)
           ELSE IF <<start, end>> = <<180, 270>> THEN Box(cx - r, cx, cy - r, cy)
           ELSE IF <<start, end>> = <<270, 360>> THEN Box(cx, cx + r, cy - r, cy)
           ELSE IF <<start, end>> = <<90, 270>> THEN Box(cx - r, cx, cy - r, cy + r)
           ELSE IF <<start, end>> = <<270, 90>> THEN Box(cx, cx + r, cy - r, cy + r)
           ELSE Box(cx - r, cx + r, cy - r, cy + r))

\* msp.add_lwpolyline(points, close=closed, ...) through the corners of box
add_lwpolyline(box, closed, layer, feat) == Entity("LWPOLYLINE", layer, closed, feat, box)

\* msp.add_text(...) without a layer attribute
add_text(x, y, feat) == Entity("TEXT", "0", FALSE, feat, Box(x, x, y, y))

\* the layers both generators create in a new document
StandardLayers == {"0", "outline", "hole", "thread", "center"}

NewDocument == [layers |-> StandardLayers, entities |-> <<>>]

\* msp.query('KIND[layer=="layer"]')
Query(d, kind, layer) ==
    {i \in 1..Len(d.entities) : d.entities[i].kind = kind /\ d.entities[i].layer = layer}

\* msp.query('*[layer=="layer"]')
QueryLayer(d, layer) == {i \in 1..Len(d.entities) : d.entities[i].layer = layer}

RECURSIVE SetMin(_)
SetMin(S) == LET x == CHOOSE x \in S : TRUE
             IN IF S = {x} THEN x ELSE Min2(x, SetMin(S \ {x}))

RECURSIVE SetMax(_)
SetMax(S) == LET x == CHOOSE x \in S : TRUE
             IN IF S = {x} THEN x ELSE Max2(x, SetMax(S \ {x}))

\* ezdxf.bbox.extents(entities).size for a non-empty selection I of d
ExtentsSize(d, I) ==
    [x |-> SetMax({d.entities[i].box.x1 : i \in I}) - SetMin({d.entities[i].box.x0 : i \in I}),
     y |-> SetMax({d.entities[i].box.y1 : i \in I}) - SetMin({d.entities[i].box.y0 : i \in I})]

-----------------------------------------------------------------------------
(* TurtleCAD shapes used by the plate generator *)

\* TurtleCAD.slot(length, width) of a turtle at (x, y) drawing on layer: the
\* slot lies along the x axis whatever the heading is
turtle_slot(x, y, layer, hl, hw, feat) ==
    << add_arc(x - hl, y, hw, 90, 270, layer, feat),
       add_line(x - hl, y + hw, x + hl, y + hw, layer, feat),
       add_arc(x + hl, y, hw, 270, 90, layer, feat),
       add_line(x + hl, y - hw, x - hl, y - hw, layer, feat) >>

\* self.layer of a new TurtleCAD
turtle_layer == "outline"

-----------------------------------------------------------------------------
(* The plate family: validate, draw and the acceptance check *)

MaxSlots == 1

SlotChoices == [length : {20}, width : {10}, x : {0, 30}, y : {30}, angle : {0, 45}]

SlotLists == UNION {[1..n -> SlotChoices] : n \in 0..MaxSlots}

ThreadedHoleLists == {<<>>, <<[diameter |-> 40, x |-> 50, y |-> 30]>>,
                      <<[diameter |-> 0, x |-> 50, y |-> 30]>>}

CounterboreLists == {<<>>, <<[diameter |-> 12, depth |-> 5, x |-> 50, y |-> 30,
                              through_diameter |-> 6]>>}

\* params.get("keyway") when the spec has no keyway
NoKeyway == [width |-> 0, length |-> 0, x |-> 0, y |-> 0, orientation |-> "none"]

Keyways == {NoKeyway, [width |-> 6, length |-> 20, x |-> 50, y |-> 0,
                       orientation |-> "horizontal"]}

PlateParams ==
    [length : {0, 100}, width : {60}, hole_diameter : {0, 10, 30}, corner_offset : {0, 10},
     chamfer_size : {0, 5}, fillet_radius : {0, 5, 80}, slots : SlotLists,
     threaded_holes : ThreadedHoleLists, counterbores : CounterboreLists, keyway : Keyways]

\* the result of a validate: returned, or raised with a message naming fields
Valid == [ok |-> TRUE, names |-> {}]

Invalid(names) == [ok |-> FALSE, names |-> names]

\* _validate_plate / PlateGenerator.validate of generator g; the fields the
\* error names are those of the ValidationError field and message (class)
\* or of the ValueError message (legacy)
validate_plate(g, p) ==
    IF p.length <= 0 \/ p.width <= 0 THEN Invalid({"length", "width"})
    ELSE IF /\ p.hole_diameter > 0
            /\ p.corner_offset > 0
            /\ \/ 2 * p.corner_offset + p.hole_diameter > 2 * p.length
               \/ 2 * p.corner_offset + p.hole_diameter > 2 * p.width
    THEN Invalid(IF g = "class" THEN {"corner_offset"} ELSE {})
    ELSE IF \E i \in 1..Len(p.slots) :
              \/ p.slots[i].length <= 0 \/ p.slots[i].width <= 0
              \/ p.slots[i].width >= p.slots[i].length
              \/ p.slots[i].x < 0 \/ p.slots[i].x > p.length
              \/ p.slots[i].y < 0 \/ p.slots[i].y > p.width
    THEN Invalid({"slot"})
    ELSE IF \E i \in 1..Len(p.threaded_holes) : p.threaded_holes[i].diameter <= 0
    THEN Invalid({"threaded_hole"})
    ELSE IF \E i \in 1..Len(p.counterbores) :
              p.counterbores[i].diameter <= 0 \/ p.counterbores[i].depth <= 0
    THEN Invalid({"counterbore"})
    ELSE IF p.keyway # NoKeyway /\ (p.keyway.width <= 0 \/ p.keyway.length <= 0)
    THEN Invalid({"keyway"})
    ELSE IF p.chamfer_size > 0 /\ p.fillet_radius > 0
    THEN Invalid({"chamfer", "fillet"})
    ELSE Valid

RECURSIVE Flatten(_)
Flatten(ss) == IF ss = <<>> THEN <<>> ELSE Head(ss) \o Flatten(Tail(ss))

\* the outline of the plate: chamfered, rounded or plain
draw_outline(g, p) ==
    LET L == p.length  W == p.width  c == p.chamfer_size  r == p.fillet_radius
    IN IF c > 0
       THEN (IF g = "legacy"
             THEN << add_line(c, 0, 0, c, "outline", "outline"),
                     add_line(L, W - c, L - c, W, "outline", "outline"),
                     add_line(L - c, 0, L, c, "outline", "outline"),
                     add_line(0, W - c, c, W, "outline", "outline") >>
             ELSE << add_line(c, 0, 0, c, "outline", "outline"),
                     add_line(L, W - c, L - c, W, "outline", "outline") >>)
            \o << add_lwpolyline(Box(Min2(0, L - c), Max2(L, c), Min2(0, W - c), Max2(W, c)),
                                 TRUE, "outline", "outline") >>
       ELSE IF r > 0
       THEN << add_arc(r, r, r, 90, 180, "outline", "outline"),
               add_line(0, r, 0, W - r, "outline", "outline"),
               add_arc(r, W - r, r, 180, 270, "outline", "outline"),
               add_line(r, W, L - r, W, "outline", "outline"),
               add_arc(L - r, W - r, r, 270, 360, "outline", "outline"),
               add_line(L, W - r, L, r, "outline", "outline"),
               add_arc(L - r, r, r, 0, 90, "outline", "outline"),
               add_line(L - r, 0, r, 0, "outline", "outline") >>
       ELSE << add_lwpolyline(Box(0, L, 0, W), TRUE, "outline", "outline") >>

\* the four corner holes; radius = hole_diameter / 2.0
draw_corner_holes(p) ==
    LET o == p.corner_offset  r == p.hole_diameter \div 2
    IN IF p.hole_diameter > 0
       THEN << add_circle(o, o, r, "hole", "corner_hole"),
               add_circle(p.length - o, o, r, "hole", "corner_hole"),
               add_circle(p.length - o, p.width - o, r, "hole", "corner_hole"),
               add_circle(o, p.width - o, r, "hole", "corner_hole") >>
       ELSE <<>>

\* one slot: drawn in place when its angle is 0, by a TurtleCAD otherwise
draw_slot(s) ==
    LET hl == s.length \div 2  hw == s.width \div 2
    IN IF s.angle = 0
       THEN << add_arc(s.x - hl, s.y, hw, 90, 270, "hole", "slot"),
               add_arc(s.x + hl, s.y, hw, 270, 90, "hole", "slot"),
               add_line(s.x - hl, s.y + hw, s.x + hl, s.y + hw, "hole", "slot"),
               add_line(s.x - hl, s.y - hw, s.x + hl, s.y - hw, "hole", "slot") >>
       ELSE turtle_slot(s.x, s.y, turtle_layer, hl, hw, "slot")

\* one threaded hole: thread_radius = th_dia / 2 * 0.85
draw_threaded_hole(th) ==
    << add_circle(th.x, th.y, th.diameter \div 2, "hole", "threaded_hole"),
       add_circle(th.x, th.y, (th.diameter * 85) \div 200, "thread", "threaded_hole"),
       add_line(th.x - th.diameter, th.y, th.x + th.diameter, th.y, "center", "threaded_hole"),
       add_line(th.x, th.y - th.diameter, th.x, th.y + th.diameter, "center", "threaded_hole") >>

\* one counterbore: the ring, the through hole and the depth text
draw_counterbore(cb) ==
    << add_circle(cb.x, cb.y, cb.diameter \div 2, "hole", "counterbore"),
       add_circle(cb.x, cb.y, cb.through_diameter \div 2, "hole", "counterbore") >>
    \o (IF cb.depth > 0
        THEN << add_text(cb.x + cb.diameter \div 2 + 2, cb.y, "counterbore") >>
        ELSE <<>>)

\* the keyway, a closed polyline on the hole layer
draw_keyway(kw) ==
    LET hl == kw.length \div 2
    IN IF kw.orientation = "horizontal"
       THEN << add_lwpolyline(Box(kw.x - hl, kw.x + hl, kw.y, kw.y + kw.width),
                              TRUE, "hole", "keyway") >>
       ELSE << add_lwpolyline(Box(kw.x, kw.x + kw.width, kw.y - hl, kw.y + hl),
                              TRUE, "hole", "keyway") >>

\* _draw_plate / PlateGenerator.draw of generator g: the entities added
draw_plate(g, p) ==
    draw_outline(g, p)
    \o draw_corner_holes(p)
    \o Flatten([i \in 1..Len(p.slots) |-> draw_slot(p.slots[i])])
    \o Flatten([i \in 1..Len(p.threaded_holes) |-> draw_threaded_hole(p.threaded_holes[i])])
    \o Flatten([i \in 1..Len(p.counterbores) |-> draw_counterbore(p.counterbores[i])])
    \o (IF p.keyway # NoKeyway THEN draw_keyway(p.keyway) ELSE <<>>)

\* the absolute tolerance of the envelope check, and the corner hole count
tolerance == 1

expected_holes == 4

\* the envelope comparison of check_plate: TRUE when it does not fail
envelope(size, length, width) ==
    \/ ~(Abs(size.x - length) > tolerance \/ Abs(size.y - width) > tolerance)
    \/ (Abs(size.x - width) < tolerance /\ Abs(size.y - length) < tolerance)

\* check_plate(doc, params): "pass", or the failure it raises
check_plate(d, p) ==
    LET outlines == Query(d, "LWPOLYLINE", "outline")
        anyFeature == \/ p.hole_diameter > 0 \/ p.slots # <<>> \/ p.threaded_holes # <<>>
                      \/ p.counterbores # <<>> \/ p.keyway # NoKeyway
    IN IF "outline" \notin d.layers THEN "layer_missing"
       ELSE IF anyFeature /\ "hole" \notin d.layers THEN "layer_missing"
       ELSE IF p.chamfer_size = 0 /\ p.fillet_radius = 0 /\ Cardinality(outlines) # 1
       THEN "outline_not_single"
       ELSE IF /\ p.chamfer_size = 0 /\ p.fillet_radius = 0
               /\ \E i \in outlines : ~d.entities[i].closed
       THEN "outline_not_closed"
       ELSE IF /\ ~(p.chamfer_size = 0 /\ p.fillet_radius = 0)
               /\ Cardinality(outlines) + Cardinality(Query(d, "ARC", "outline"))
                    + Cardinality(Query(d, "LINE", "outline")) = 0
       THEN "outline_no_data"
       ELSE IF QueryLayer(d, "outline") = {} THEN "outline_no_data"
       ELSE IF ~envelope(ExtentsSize(d, QueryLayer(d, "outline")), p.length, p.width)
       THEN "outline_size_mismatch"
       ELSE IF p.hole_diameter > 0 /\ Cardinality(Query(d, "CIRCLE", "hole")) < expected_holes
       THEN "hole_count"
       ELSE IF p.slots # <<>> /\ Cardinality(Query(d, "ARC", "hole")) < Len(p.slots) * 2
       THEN "slot_count"
       ELSE IF /\ p.threaded_holes # <<>>
               /\ Cardinality(Query(d, "CIRCLE", "thread")) < Len(p.threaded_holes)
       THEN "thread_incomplete"
       ELSE IF /\ p.counterbores # <<>>
               /\ Cardinality(Query(d, "CIRCLE", "hole")) < Len(p.counterbores) * 2
       THEN "counterbore_incomplete"
       ELSE IF p.keyway # NoKeyway /\ Cardinality(Query(d, "LWPOLYLINE", "hole")) = 0
       THEN "keyway_missing"
       ELSE "pass"

\* what the steps on a plate leave alone
plateFrame == <<ctlVars, specFile, dxfFile, store, writes, writers, runs, http, gen,
                catalog, turtle>>

\* generator.validate(params)
PlateValidate ==
    /\ part.stage = "input"
    /\ part' = [part EXCEPT !.stage = IF validate_plate(part.generator, part.params).ok
                                      THEN "validated" ELSE "rejected"]
    /\ UNCHANGED doc
    /\ UNCHANGED plateFrame

\* generator.draw(doc, params) on the new document
PlateDraw ==
    /\ part.stage = "validated"
    /\ doc' = [doc EXCEPT !.entities = draw_plate(part.generator, part.params)]
    /\ part' = [part EXCEPT !.stage = "drawn"]
    /\ UNCHANGED plateFrame

\* validate_dxf_file on the drawn document and the same spec
PlateCheck ==
    /\ part.stage = "drawn"
    /\ part' = [part EXCEPT !.stage = "checked", !.accept = check_plate(doc, part.params)]
    /\ UNCHANGED doc
    /\ UNCHANGED plateFrame

PlateInit ==
    /\ CtlIdle
    /\ specFile = NoSpec /\ dxfFile = NoFile /\ store = <<>> /\ writes = 0
    /\ \E p \in PlateParams, g \in Generators :
         part = [family |-> "plate", params |-> p, generator |-> g,
                 stage |-> "input", accept |-> "none"]
    /\ doc = NewDocument
    /\ writers = Unused /\ runs = Unused /\ http = Unused /\ gen = Unused
    /\ catalog = Unused /\ turtle = Unused

PlateNext == PlateValidate \/ PlateDraw \/ PlateCheck

PlateSpec == PlateInit /\ [][PlateNext]_vars

\* entity i of the document lies inside the plate envelope on both axes
InsideEnvelope(i) ==
    /\ 0 <= doc.entities[i].box.x0 /\ doc.entities[i].box.x1 <= part.params.length
    /\ 0 <= doc.entities[i].box.y0 /\ doc.entities[i].box.y1 <= part.params.width

\* C21: for every plate parameter set that passes validate, every derived
\* feature lies inside the plate envelope on both axes: the four corner-hole
\* circles and every slot with its half-length and half-width.
C21_FeaturesInsideEnvelope ==
    part.stage \in {"drawn", "checked"} =>
        \A i \in 1..Len(doc.entities) :
            doc.entities[i].feat \in {"corner_hole", "slot"} => InsideEnvelope(i)

\* C28: generation and acceptance agree on plates: for every plate
\* parameter set that validate accepts, the document that draw produces
\* passes plate acceptance for that same spec.
C28_DrawnPlatePassesAcceptance ==
    part.stage = "checked" => part.accept = "pass"

-----------------------------------------------------------------------------
(* The plate acceptance check on documents read from a file *)

\* n copies of entity e
Repeat(e, n) == [i \in 1..n |-> e]

\* what the outline layer of a document holds, by kind
OutlineKinds == {"none", "closed", "open", "closed_and_line", "two_closed", "line_only"}

\* how far the outline extents are from the requested envelope, per axis
Deviations == {0, 1, 2}

CircleCounts == {0, 3, 4}

ArcCounts == {0, 2}

ThreadCounts == {0, 1}

HolePolylines == {"none", "open", "closed"}

\* the entities of the outline layer: polylines and lines spanning sx by sy
OutlineEntities(kind, sx, sy) ==
    LET poly(c) == add_lwpolyline(Box(0, sx, 0, sy), c, "outline", "outline")
        line    == add_line(0, 0, sx, sy, "outline", "outline")
    IN IF kind = "closed" THEN <<poly(TRUE)>>
       ELSE IF kind = "open" THEN <<poly(FALSE)>>
       ELSE IF kind = "closed_and_line" THEN <<poly(TRUE), line>>
       ELSE IF kind = "two_closed" THEN <<poly(TRUE), poly(TRUE)>>
       ELSE IF kind = "line_only" THEN <<line>>
       ELSE <<>>

\* a document as ezdxf.readfile returns it
ReadDocument(kind, sx, sy, circles, arcs, threads, holePoly) ==
    [layers |-> StandardLayers,
     entities |->
        OutlineEntities(kind, sx, sy)
        \o Repeat(add_circle(10, 10, 5, "hole", "hole"), circles)
        \o Repeat(add_arc(30, 30, 5, 90, 270, "hole", "hole"), arcs)
        \o Repeat(add_circle(50, 30, 17, "thread", "hole"), threads)
        \o (IF holePoly = "none" THEN <<>>
            ELSE <<add_lwpolyline(Box(40, 60, 0, 6), holePoly = "closed", "hole", "hole")>>)]

\* the features a checked spec requests besides corner holes
FeatureChoices == {"none", "slot", "threaded_hole", "counterbore", "keyway"}

\* the plate specs the documents are checked against
CheckedParams ==
    {[length |-> 100, width |-> 60, hole_diameter |-> h, corner_offset |-> 10,
      chamfer_size |-> c, fillet_radius |-> 0,
      slots |-> IF f = "slot"
                THEN <<[length |-> 20, width |-> 10, x |-> 30, y |-> 30, angle |-> 0]>>
                ELSE <<>>,
      threaded_holes |-> IF f = "threaded_hole"
                         THEN <<[diameter |-> 40, x |-> 50, y |-> 30]>> ELSE <<>>,
      counterbores |-> IF f = "counterbore"
                       THEN <<[diameter |-> 12, depth |-> 5, x |-> 50, y |-> 30,
                               through_diameter |-> 6]>>
                       ELSE <<>>,
      keyway |-> IF f = "keyway"
                 THEN [width |-> 6, length |-> 20, x |-> 50, y |-> 0,
                       orientation |-> "horizontal"]
                 ELSE NoKeyway] : h \in {0, 10}, c \in {0, 5}, f \in FeatureChoices}

\* check_plate(doc, params) inside validate_dxf_file
CheckPlate ==
    /\ part.stage = "read"
    /\ part' = [part EXCEPT !.stage = "checked", !.accept = check_plate(doc, part.params)]
    /\ UNCHANGED doc
    /\ UNCHANGED plateFrame

CheckInit ==
    /\ CtlIdle
    /\ specFile = NoSpec /\ dxfFile = NoFile /\ store = <<>> /\ writes = 0
    /\ \E p \in CheckedParams :
         part = [family |-> "plate", params |-> p, stage |-> "read", accept |-> "none"]
    /\ \E k \in OutlineKinds, dx \in Deviations, dy \in Deviations, tr \in BOOLEAN,
          c \in CircleCounts, a \in ArcCounts, th \in ThreadCounts, hp \in HolePolylines :
         doc = ReadDocument(k, IF tr THEN 60 + dx ELSE 100 + dx,
                            IF tr THEN 100 + dy ELSE 60 + dy, c, a, th, hp)
    /\ writers = Unused /\ runs = Unused /\ http = Unused /\ gen = Unused
    /\ catalog = Unused /\ turtle = Unused

CheckNext == CheckPlate

CheckSpec == CheckInit /\ [][CheckNext]_vars

NoEdgeTreatment(p) == p.chamfer_size = 0 /\ p.fillet_radius = 0

\* C23: for a plate spec without edge treatment acceptance passes only if the
\* document has exactly one outline primitive and that primitive is closed;
\* with an edge treatment it passes only if the outline layer holds at least
\* one primitive.
C23_OutlineOneClosedPrimitive ==
    (part.stage = "checked" /\ part.accept = "pass") =>
        IF NoEdgeTreatment(part.params)
        THEN /\ Cardinality(QueryLayer(doc, "outline")) = 1
             /\ \A i \in QueryLayer(doc, "outline") : doc.entities[i].closed
        ELSE QueryLayer(doc, "outline") # {}

\* the envelope check was reached: the outline checks before it passed
EnvelopeChecked ==
    /\ part.stage = "checked"
    /\ part.accept \notin {"layer_missing", "outline_not_single", "outline_not_closed",
                           "outline_no_data"}

\* the extents match length by width within the tolerance, inclusive
WithinTolerance(size, length, width) ==
    Abs(size.x - length) <= tolerance /\ Abs(size.y - width) <= tolerance

\* C24: the envelope check passes if and only if the outline bounding box is
\* within 1.0 of length by width on both axes, or within 1.0 of width by
\* length: the same tolerance, a deviation of exactly 1.0 included, for the
\* direct and the transposed match.
C24_EnvelopeToleranceSymmetric ==
    EnvelopeChecked =>
        LET size == ExtentsSize(doc, QueryLayer(doc, "outline"))
        IN part.accept # "outline_size_mismatch"
             <=> \/ WithinTolerance(size, part.params.length, part.params.width)
                 \/ WithinTolerance(size, part.params.width, part.params.length)

\* C25: plate acceptance fails whenever a requested feature is
\* under-represented: fewer than 4 hole circles for corner holes, fewer hole
\* arcs than twice the slots, fewer thread circles than threaded holes, fewer
\* hole circles than twice the counterbores, or no closed polyline on the
\* hole layer for a keyway (an open polyline does not count).
C25_UnderRepresentedFeatureFails ==
    LET p == part.params
        under ==
          \/ p.hole_diameter > 0 /\ Cardinality(Query(doc, "CIRCLE", "hole")) < 4
          \/ Cardinality(Query(doc, "ARC", "hole")) < 2 * Len(p.slots)
          \/ Cardinality(Query(doc, "CIRCLE", "thread")) < Len(p.threaded_holes)
          \/ Cardinality(Query(doc, "CIRCLE", "hole")) < 2 * Len(p.counterbores)
          \/ /\ p.keyway # NoKeyway
             /\ ~\E i \in Query(doc, "LWPOLYLINE", "hole") : doc.entities[i].closed
    IN (part.stage = "checked" /\ under) => part.accept # "pass"

-----------------------------------------------------------------------------
(* Validation of the physical dimensions of a family *)

\* the values a dimension is given: negative, zero, or the positive value v
DimensionValues(v) == {-5, 0, v}

FlangeParams ==
    [outer_diameter : DimensionValues(30), inner_diameter : DimensionValues(10),
     bolt_circle_diameter : DimensionValues(20), bolt_count : {4},
     bolt_size : DimensionValues(6)]

PulleyParams ==
    [outer_diameter : DimensionValues(30), bore_diameter : DimensionValues(10),
     width : DimensionValues(20)]

RetainerParams ==
    [outer_diameter : DimensionValues(30), inner_diameter : DimensionValues(10),
     thickness : DimensionValues(2)]

SpringDimParams ==
    [wire_diameter : DimensionValues(2), coil_diameter : DimensionValues(20),
     free_length : DimensionValues(50)]

PlateDimParams ==
    [length : DimensionValues(100), width : DimensionValues(60), hole_diameter : {0},
     corner_offset : {10}, chamfer_size : {0}, fillet_radius : {0}, slots : {<<>>},
     threaded_holes : {<<>>}, counterbores : {<<>>}, keyway : {NoKeyway}]

\* _validate_flange / FlangeGenerator.validate: the fields named are the
\* ValidationError field and those its message speaks of
validate_flange(g, p) ==
    IF p.outer_diameter <= p.inner_diameter
    THEN Invalid({"outer_diameter", "inner_diameter"})
    ELSE IF p.bolt_count < 3 THEN Invalid({"bolt_count"})
    ELSE IF \/ p.bolt_circle_diameter >= p.outer_diameter
            \/ p.bolt_circle_diameter <= p.inner_diameter
    THEN Invalid({"bolt_circle_diameter", "inner_diameter", "outer_diameter"})
    ELSE Valid

\* _validate_pulley / PulleyGenerator.validate
validate_pulley(g, p) ==
    IF p.outer_diameter <= p.bore_diameter
    THEN Invalid({"outer_diameter", "bore_diameter"})
    ELSE IF p.width <= 0 THEN Invalid({"width"})
    ELSE Valid

\* _validate_retainer / RetainerGenerator.validate
validate_retainer(g, p) ==
    IF p.outer_diameter <= p.inner_diameter
    THEN Invalid({"outer_diameter", "inner_diameter"})
    ELSE IF p.thickness <= 0 THEN Invalid({"thickness"})
    ELSE Valid

\* SpringGenerator.validate names one field per check; _validate_spring
\* raises one message for all three, which names none
validate_spring_fields(g, p) ==
    IF g = "class"
    THEN IF p.wire_diameter <= 0 THEN Invalid({"wire_diameter"})
         ELSE IF p.coil_diameter <= p.wire_diameter
         THEN Invalid({"coil_diameter", "wire_diameter"})
         ELSE IF p.free_length <= 0 THEN Invalid({"free_length"})
         ELSE Valid
    ELSE IF \/ p.wire_diameter <= 0
            \/ p.coil_diameter <= p.wire_diameter
            \/ p.free_length <= 0
    THEN Invalid({})
    ELSE Valid

\* validate of family f in generator g, with the fields its error names
validate_fields(g, f, p) ==
    IF f = "plate" THEN validate_plate(g, p)
    ELSE IF f = "flange" THEN validate_flange(g, p)
    ELSE IF f = "pulley" THEN validate_pulley(g, p)
    ELSE IF f = "retainer" THEN validate_retainer(g, p)
    ELSE validate_spring_fields(g, p)

DimInputs ==
    {[family |-> "plate", params |-> p] : p \in PlateDimParams}
    \cup {[family |-> "flange", params |-> p] : p \in FlangeParams}
    \cup {[family |-> "pulley", params |-> p] : p \in PulleyParams}
    \cup {[family |-> "retainer", params |-> p] : p \in RetainerParams}
    \cup {[family |-> "spring", params |-> p] : p \in SpringDimParams}

\* generator.validate(params) / the legacy validator of the family
DimValidate ==
    /\ part.stage = "input"
    /\ part' = [part EXCEPT !.stage = "validated",
                            !.verdict = validate_fields(part.generator, part.family,
                                                        part.params)]
    /\ UNCHANGED doc
    /\ UNCHANGED plateFrame

DimInit ==
    /\ CtlIdle
    /\ specFile = NoSpec /\ dxfFile = NoFile /\ store = <<>> /\ writes = 0
    /\ \E i \in DimInputs, g \in Generators :
         part = [family |-> i.family, params |-> i.params, generator |-> g,
                 stage |-> "input", verdict |-> Valid]
    /\ writers = Unused /\ runs = Unused /\ http = Unused /\ gen = Unused
    /\ catalog = Unused /\ doc = Unused /\ turtle = Unused

DimNext == DimValidate

DimSpec == DimInit /\ [][DimNext]_vars

\* the parameters of a family that are physical dimensions
PhysicalDimensions(f) ==
    IF f = "plate" THEN {"length", "width"}
    ELSE IF f = "flange"
    THEN {"outer_diameter", "inner_diameter", "bolt_circle_diameter", "bolt_size"}
    ELSE IF f = "pulley" THEN {"outer_diameter", "bore_diameter", "width"}
    ELSE IF f = "retainer" THEN {"outer_diameter", "inner_diameter", "thickness"}
    ELSE {"wire_diameter", "coil_diameter", "free_length"}

\* C22: for every family and every parameter that is a physical dimension of
\* it, a zero or negative value makes validate fail with an error that names
\* that very field.
C22_NonPositiveDimensionNamed ==
    part.stage = "validated" =>
        \A d \in PhysicalDimensions(part.family) :
            part.params[d] <= 0 =>
                ~part.verdict.ok /\ d \in part.verdict.names

-----------------------------------------------------------------------------
(* The engineering validator of a gear design *)

\* STANDARD_MODULE, the module series in hundredths of a millimetre
STANDARD_MODULE ==
    {100, 125, 150, 200, 250, 300, 400, 500, 600, 800, 1000, 1200, 1600, 2000, 2500, 3200}

\* the tooth count below which validate_part_design warns of undercut
undercut_teeth == 17

\* the modules a design is given, in hundredths: the series and values off it
GearModules == STANDARD_MODULE \cup {0, 270, 700, 900, 3300}

GearTeeth == {0, 10, 16, 17, 20, 40}

\* recommend_material("gear", "")
recommend_material_gear == <<"material">>

\* validate_part_design("gear", params) with every tooth count below 17
\* marking the design invalid
validate_gear_design_undercut_invalid(params) ==
    LET standard == params.module \in STANDARD_MODULE
        valid    == standard /\ params.teeth >= undercut_teeth
    IN [is_valid |-> valid,
        messages |-> <<IF standard THEN "module_standard" ELSE "module_not_standard">>
                     \o (IF params.teeth < undercut_teeth
                         THEN <<"undercut_warning">> ELSE <<>>),
        recommendations |-> recommend_material_gear
                            \o (IF valid THEN <<"tolerance">> ELSE <<>>)]

\* validate_part_design("gear", params): (is_valid, messages, recommendations)
validate_gear_design(params) ==
    LET standard == params.module \in STANDARD_MODULE
    IN [is_valid |-> standard,
        messages |-> <<IF standard THEN "module_standard" ELSE "module_not_standard">>
                     \o (IF params.teeth < undercut_teeth
                         THEN <<"undercut_warning">> ELSE <<>>),
        recommendations |-> recommend_material_gear
                            \o (IF standard THEN <<"tolerance">> ELSE <<>>)]

NoReport == [is_valid |-> TRUE, messages |-> <<>>, recommendations |-> <<>>]

\* validate_part_design(part_type, params) for a gear
ValidateGearDesign ==
    /\ part.stage = "input"
    /\ part' = [part EXCEPT !.stage = "validated",
                            !.report = validate_gear_design(part.params)]
    /\ UNCHANGED doc
    /\ UNCHANGED plateFrame

EngInit ==
    /\ CtlIdle
    /\ specFile = NoSpec /\ dxfFile = NoFile /\ store = <<>> /\ writes = 0
    /\ \E mod \in GearModules, z \in GearTeeth :
         part = [family |-> "gear", params |-> [module |-> mod, teeth |-> z],
                 stage |-> "input", report |-> NoReport]
    /\ writers = Unused /\ runs = Unused /\ http = Unused /\ gen = Unused
    /\ catalog = Unused /\ doc = Unused /\ turtle = Unused

EngNext == ValidateGearDesign

EngSpec == EngInit /\ [][EngNext]_vars

\* the messages of a report that are findings: an error or a warning
Findings(report) ==
    {i \in 1..Len(report.messages) :
        report.messages[i] \in {"module_not_standard", "undercut_warning"}}

\* C26: for a gear the engineering validator reports the design valid without
\* any warning exactly when the module is in the standard series and
\* teeth >= 17; a module outside the series yields a finding, and teeth < 17
\* yields an undercut warning that does not by itself mark the design invalid.
C26_GearCleanIffStandardAndTeeth ==
    part.stage = "validated" =>
        LET r        == part.report
            standard == part.params.module \in STANDARD_MODULE
            warned   == \E i \in 1..Len(r.messages) : r.messages[i] = "undercut_warning"
        IN /\ (r.is_valid /\ Findings(r) = {}) <=> (standard /\ part.params.teeth >= 17)
           /\ ~standard =>
                \E i \in 1..Len(r.messages) : r.messages[i] = "module_not_standard"
           /\ part.params.teeth < 17 => warned /\ (r.is_valid <=> standard)

\* a gear of standard module 3 with 10 teeth was validated: the report is
\* valid and carries the undercut warning
C26_Witness ==
    /\ part.stage = "validated"
    /\ part.params.module = 300
    /\ part.params.teeth = 10
    /\ part.report.is_valid
    /\ part.report.messages = <<"module_standard", "undercut_warning">>

-----------------------------------------------------------------------------
(* The retry policy of one _send_request, for both transports *)

\* C27: within one inference call a request that is rate limited (429) or
\* times out is retried while the retry budget max_retries lasts, any other
\* HTTP error status ends the request at once, and no more than max_retries
\* requests are sent per model; this holds for APIClient._send_request and
\* for nl_to_spec_llm._send_request alike.
C27_RateLimitAndTimeoutRetried ==
    LET l == http.last
    IN l.resp # "none" =>
        /\ (l.resp \in {"429", "timeout"} /\ l.try + 1 < max_retries(orch))
              => l.step = "retry"
        /\ l.resp = "http_error" => l.step = "raise"
        /\ l.try < max_retries(orch)

-----------------------------------------------------------------------------
(* A sequence of TurtleCAD calls on one turtle *)

\* the most calls a sequence makes
MaxCalls == 3

Distances == {10, 20}

TurnAngles == {90}

Radii == {-10, 10}

Extents == {90, 180}

\* cos and sin of a heading that is a multiple of 90 degrees
Cos(a) == IF a % 360 = 0 THEN 1 ELSE IF a % 360 = 180 THEN -1 ELSE 0

Sin(a) == IF a % 360 = 90 THEN 1 ELSE IF a % 360 = 270 THEN -1 ELSE 0

\* what the last call was and did
NoTurtleCall ==
    [op |-> "none", radius |-> 0, arg |-> 0, angle |-> 0, x |-> 0, y |-> 0,
     drew |-> FALSE, outcome |-> "ok"]

TurtleCall(op, radius, arg, drew, outcome) ==
    [op |-> op, radius |-> radius, arg |-> arg, angle |-> turtle.angle,
     x |-> turtle.x, y |-> turtle.y, drew |-> drew, outcome |-> outcome]

\* a call may be made: the sequence is not over and no call has raised
Callable == turtle.calls < MaxCalls /\ turtle.last.outcome = "ok"

\* what a TurtleCAD call leaves alone
turtleFrame == <<ctlVars, specFile, dxfFile, store, writes, writers, runs, http, gen,
                 part, catalog>>

\* TurtleCAD.forward(distance)
Forward ==
    /\ Callable
    /\ \E d \in Distances :
         LET nx == turtle.x + Cos(turtle.angle) * d
             ny == turtle.y + Sin(turtle.angle) * d
         IN /\ doc' = IF turtle.pen_down
                      THEN [doc EXCEPT !.entities =
                              Append(@, add_line(turtle.x, turtle.y, nx, ny,
                                                 turtle.layer, "turtle"))]
                      ELSE doc
            /\ turtle' = [turtle EXCEPT !.x = nx, !.y = ny, !.calls = @ + 1,
                            !.last = TurtleCall("forward", 0, d, turtle.pen_down, "ok")]
    /\ UNCHANGED turtleFrame

\* TurtleCAD.left(angle)
Left ==
    /\ Callable
    /\ \E a \in TurnAngles :
         turtle' = [turtle EXCEPT !.angle = @ + a, !.calls = @ + 1,
                      !.last = TurtleCall("left", 0, a, FALSE, "ok")]
    /\ UNCHANGED doc
    /\ UNCHANGED turtleFrame

\* TurtleCAD.right(angle)
Right ==
    /\ Callable
    /\ \E a \in TurnAngles :
         turtle' = [turtle EXCEPT !.angle = @ - a, !.calls = @ + 1,
                      !.last = TurtleCall("right", 0, a, FALSE, "ok")]
    /\ UNCHANGED doc
    /\ UNCHANGED turtleFrame

\* TurtleCAD.circle(radius, extent): the heading is advanced where the end
\* angle is first computed (radius > 0 only) and again by the sweep angle
\* after the arc is added
Circle ==
    /\ Callable
    /\ \E radius \in Radii, extent \in Extents :
         LET r      == Abs(radius)
             side   == IF radius > 0 THEN 90 ELSE -90
             cx     == turtle.x + Cos(turtle.angle + side) * r
             cy     == turtle.y + Sin(turtle.angle + side) * r
             start  == turtle.angle - side
             first  == IF radius > 0 THEN turtle.angle + extent ELSE turtle.angle
             sweep  == IF radius > 0 THEN extent ELSE -extent
             end    == start + sweep
             arc    == IF radius > 0
                       THEN add_arc(cx, cy, r, start % 360, end % 360,
                                    turtle.layer, "turtle")
                       ELSE add_arc(cx, cy, r, end % 360, start % 360,
                                    turtle.layer, "turtle")
         IN /\ doc' = [doc EXCEPT !.entities = Append(@, arc)]
            /\ turtle' = [turtle EXCEPT !.angle = first + sweep,
                            !.x = cx + Cos(end) * r, !.y = cy + Sin(end) * r,
                            !.calls = @ + 1,
                            !.last = TurtleCall("circle", radius, extent, TRUE, "ok")]
    /\ UNCHANGED turtleFrame

\* TurtleCAD.pen_up()
PenUp ==
    /\ Callable
    /\ turtle' = [turtle EXCEPT !.pen_down = FALSE, !.pen = "pen_up", !.calls = @ + 1,
                    !.last = TurtleCall("pen_up", 0, 0, FALSE, "ok")]
    /\ UNCHANGED doc
    /\ UNCHANGED turtleFrame

\* t.pen_down(): the instance attribute pen_down set by __init__ and pen_up
\* is a bool and hides the method of that name, so the call raises TypeError
PenDown ==
    /\ Callable
    /\ turtle' = [turtle EXCEPT !.calls = @ + 1,
                    !.last = TurtleCall("pen_down", 0, 0, FALSE, "TypeError")]
    /\ UNCHANGED doc
    /\ UNCHANGED turtleFrame

\* TurtleCAD(msp) on a new document, with a start heading
TurtleInit ==
    /\ CtlIdle
    /\ specFile = NoSpec /\ dxfFile = NoFile /\ store = <<>> /\ writes = 0
    /\ doc = NewDocument
    /\ \E a \in {0, 90} :
         turtle = [x |-> 0, y |-> 0, angle |-> a, pen_down |-> TRUE,
                   layer |-> turtle_layer, pen |-> "none", calls |-> 0,
                   last |-> NoTurtleCall]
    /\ writers = Unused /\ runs = Unused /\ http = Unused /\ gen = Unused
    /\ part = Unused /\ catalog = Unused

TurtleNext == Forward \/ Left \/ Right \/ Circle \/ PenUp \/ PenDown

TurtleSpec == TurtleInit /\ [][TurtleNext]_vars

\* C29: circle(radius, extent) turns the turtle through exactly the arc it
\* covers: the heading changes by +extent when radius > 0 and by -extent when
\* radius < 0, for every starting heading and every sequence of earlier calls.
C29_CircleTurnsByExtent ==
    turtle.last.op = "circle" =>
        turtle.angle - turtle.last.angle =
            IF turtle.last.radius > 0 THEN turtle.last.arg ELSE -turtle.last.arg

\* C30: pen_up() and pen_down() both succeed whenever they are called;
\* forward(d) adds a line if and only if the most recent pen call was
\* pen_down() or there was none, and always moves the position by d along the
\* heading.
C30_PenCallsSucceed ==
    LET l == turtle.last
    IN /\ l.op \in {"pen_up", "pen_down"} => l.outcome = "ok"
       /\ l.op = "forward" =>
            /\ l.drew <=> turtle.pen \in {"none", "pen_down"}
            /\ turtle.x = l.x + Cos(l.angle) * l.arg
            /\ turtle.y = l.y + Sin(l.angle) * l.arg

====
